---- MODULE Spec2Model ----
(***************************************************************************)
(* Session authorization and policy enforcement of the controller CLI:     *)
(* `session auth` (commands/session/authorize.rs), `execute`                *)
(* (commands/execute.rs), the long-poll client (api.rs) and the error      *)
(* taxonomy (error.rs).                                                    *)
(*                                                                         *)
(* Strings whose characters matter (contract addresses) are sequences of   *)
(* one-character strings; an error message is the sequence of the pieces   *)
(* its format! call concatenates (literal fragments are single tokens, an  *)
(* interpolated address contributes its characters).                       *)
(***************************************************************************)
EXTENDS Integers, Sequences, FiniteSets, TLC

VARIABLES
    storage,    \* the FileSystemBackend key-value store of the account
    now,        \* wall clock, unix seconds
    pc,         \* position of the running command ("idle" between commands)
    run         \* locals, inputs and outcome of the current / last command

vars == <<storage, now, pc, run>>

----------------------------------------------------------------------------
(* Bounds of the model *)

MaxCalls == 2       \* longest call batch explored
MaxTime == 360      \* the clock is explored up to this value

----------------------------------------------------------------------------
(* Option<T>: None is the empty tuple, Some(x) the one-element tuple *)

None == <<>>
Some(x) == <<x>>
IsSome(o) == o # <<>>
Unwrap(o) == o[1]

Min(S) == CHOOSE x \in S : \A y \in S : x <= y

----------------------------------------------------------------------------
(* Strings *)

\* str::to_lowercase, character by character (execute.rs:353, authorize.rs:279)
ToLowerChar(c) ==
    CASE c = "A" -> "a" [] c = "B" -> "b" [] c = "C" -> "c" [] c = "D" -> "d"
      [] c = "E" -> "e" [] c = "F" -> "f" [] c = "G" -> "g" [] c = "X" -> "x"
      [] c = "Y" -> "y" [] c = "S" -> "s" [] c = "N" -> "n"
      [] OTHER -> c

to_lowercase(s) == [i \in 1..Len(s) |-> ToLowerChar(s[i])]

\* value of one hexadecimal digit, -1 when the character is not one
HexDigitValue(c) ==
    CASE c = "0" -> 0 [] c = "1" -> 1 [] c = "2" -> 2 [] c = "3" -> 3
      [] c = "4" -> 4 [] c = "5" -> 5 [] c = "6" -> 6 [] c = "7" -> 7
      [] c = "8" -> 8 [] c = "9" -> 9
      [] c = "a" -> 10 [] c = "b" -> 11 [] c = "c" -> 12 [] c = "d" -> 13
      [] c = "e" -> 14 [] c = "f" -> 15
      [] c = "A" -> 10 [] c = "B" -> 11 [] c = "C" -> 12 [] c = "D" -> 13
      [] c = "E" -> 14 [] c = "F" -> 15
      [] OTHER -> -1

\* the digits of a hex string: the text after an optional "0x" prefix
HexBody(s) ==
    IF Len(s) >= 2 /\ s[1] = "0" /\ s[2] = "x" THEN SubSeq(s, 3, Len(s)) ELSE s

RECURSIVE HexValue(_)
HexValue(ds) ==
    IF ds = <<>> THEN 0
    ELSE 16 * HexValue(SubSeq(ds, 1, Len(ds) - 1)) + HexDigitValue(ds[Len(ds)])

\* Felt::from_hex(s).ok(): Some(field element) or None.  The strings of the
\* model are far shorter than the 252-bit modulus, so no reduction happens.
FeltFromHex(s) ==
    LET ds == HexBody(s) IN
    IF ds = <<>> \/ \E i \in 1..Len(ds) : HexDigitValue(ds[i]) < 0
    THEN None
    ELSE Some(HexValue(ds))

\* substring test on token sequences: does msg contain part, contiguously?
Contains(msg, part) ==
    \E i \in 1..(Len(msg) - Len(part) + 1) :
        SubSeq(msg, i, i + Len(part) - 1) = part

\* [String]::join(sep)
RECURSIVE Join(_, _)
Join(items, sep) ==
    IF items = <<>> THEN <<>>
    ELSE IF Len(items) = 1 THEN <<items[1]>>
    ELSE <<items[1], sep>> \o Join(Tail(items), sep)

\* all orderings of a finite set: the orders in which a HashMap may yield keys
Perms(S) ==
    {f \in [1..Cardinality(S) -> S] : \A i, j \in 1..Cardinality(S) : f[i] = f[j] => i = j}

----------------------------------------------------------------------------
(* Errors (error.rs) *)

Ok == [ok |-> TRUE, kind |-> "Ok", text |-> <<>>, secs |-> 0]
Err(kind, text) == [ok |-> FALSE, kind |-> kind, text |-> text, secs |-> 0]

\* CliError::CallbackTimeout(u64) and its Display text
CallbackTimeout(secs) ==
    [ok |-> FALSE, kind |-> "CallbackTimeout",
     text |-> <<"Callback timeout: No authorization received within ", "{0}", " seconds">>,
     secs |-> secs]

\* CliError::error_code
error_code(e) ==
    CASE e.kind = "NoSession" -> "NoSession"
      [] e.kind = "SessionExpired" -> "SessionExpired"
      [] e.kind = "PolicyViolation" -> "PolicyViolation"
      [] e.kind = "InvalidSessionData" -> "InvalidSessionData"
      [] e.kind = "Storage" -> "StorageError"
      [] e.kind = "Network" -> "NetworkError"
      [] e.kind = "TransactionFailed" -> "TransactionFailed"
      [] e.kind = "InvalidInput" -> "InvalidInput"
      [] e.kind = "CallbackTimeout" -> "CallbackTimeout"
      [] e.kind = "ServerError" -> "ServerError"
      [] e.kind = "ApiError" -> "ApiError"
      [] e.kind = "TimeoutError" -> "TimeoutError"
      [] e.kind = "NotFoundError" -> "NotFoundError"
      [] e.kind = "FileError" -> "FileError"
      [] OTHER -> "UnknownError"

\* main.rs:585-592: the process exits with 1 when the command returned Err,
\* and with 0 otherwise
exit_code(result) == IF result.ok THEN 0 ELSE 1

----------------------------------------------------------------------------
(* Policy data (authorize.rs: PolicyStorage, ContractPolicy, MethodPolicy) *)

MethodPolicy(entrypoint, authorized) ==
    [entrypoint |-> entrypoint, authorized |-> authorized]

ContractPolicy(methods) == [methods |-> methods]

\* CallSpec of execute.rs
CallSpec(contract_address, entrypoint) ==
    [contract_address |-> contract_address, entrypoint |-> entrypoint]

----------------------------------------------------------------------------
(* The policy enforcer (execute.rs: validate_calls_against_policies) *)

\* the closure passed to find(): does policy key addr match the call address?
AddrMatchesCaseSensitiveFallback(addr, call_address) ==
    LET call_felt == FeltFromHex(call_address)
        addr_felt == FeltFromHex(addr)
    IN  IF IsSome(call_felt) /\ IsSome(addr_felt)
        THEN Unwrap(call_felt) = Unwrap(addr_felt)
        ELSE addr = call_address

AddrMatches(addr, call_address) ==
    LET call_felt == FeltFromHex(call_address)
        addr_felt == FeltFromHex(addr)
    IN  IF IsSome(call_felt) /\ IsSome(addr_felt)
        THEN Unwrap(call_felt) = Unwrap(addr_felt)
        ELSE to_lowercase(addr) = to_lowercase(call_address)

\* policies.contracts.iter().find(..): the first matching key in the order the
\* HashMap yields its keys
matching_contract(call, order) ==
    LET hits == {j \in 1..Len(order) : AddrMatches(order[j], call.contract_address)}
    IN  IF hits = {} THEN None ELSE Some(order[Min(hits)])

\* a variant that counts only the methods granted with authorized = true
entrypoint_allowed_if_authorized(contract_policy, call) ==
    \E i \in 1..Len(contract_policy.methods) :
        /\ contract_policy.methods[i].entrypoint = call.entrypoint
        /\ contract_policy.methods[i].authorized

\* contract_policy.methods.iter().any(|m| m.entrypoint == call.entrypoint)
entrypoint_allowed(contract_policy, call) ==
    \E i \in 1..Len(contract_policy.methods) :
        contract_policy.methods[i].entrypoint = call.entrypoint

\* the Vec `allowed`: the entrypoint of every method, in order
allowed(contract_policy) ==
    [i \in 1..Len(contract_policy.methods) |-> contract_policy.methods[i].entrypoint]

UnauthorizedContractTextNormalized(call) ==
    <<"Contract ">> \o to_lowercase(call.contract_address)
        \o <<" is not authorized by the current session policies. Register a new session with policies that include this contract.">>

\* text of the error for a call to a contract without policy
UnauthorizedContractText(call) ==
    <<"Contract ">> \o call.contract_address
        \o <<" is not authorized by the current session policies. Register a new session with policies that include this contract.">>

UnauthorizedEntrypointTextFirstOnly(call, contract_policy) ==
    <<"Entrypoint '", call.entrypoint, "' on contract ">> \o call.contract_address
        \o <<" is not authorized by the current session. Allowed entrypoints: ", "[">>
        \o Join(SubSeq(allowed(contract_policy), 1, 1), ", ") \o <<"]">>

\* text of the error for an entrypoint the contract's policy does not list
UnauthorizedEntrypointText(call, contract_policy) ==
    <<"Entrypoint '", call.entrypoint, "' on contract ">> \o call.contract_address
        \o <<" is not authorized by the current session. Allowed entrypoints: ", "[">>
        \o Join(allowed(contract_policy), ", ") \o <<"]">>

\* the body of the loop for one call: Ok, or the error returned for it
validate_call(call, policies, order) ==
    LET m == matching_contract(call, order) IN
    IF ~IsSome(m)
    THEN Err("InvalidInput", UnauthorizedContractText(call))
    ELSE IF ~entrypoint_allowed(policies[Unwrap(m)], call)
         THEN Err("InvalidInput", UnauthorizedEntrypointText(call, policies[Unwrap(m)]))
         ELSE Ok

\* index of the call at which the loop returns an error, 0 when none does
FirstRejected(calls, policies, order) ==
    LET bad == {i \in 1..Len(calls) : ~validate_call(calls[i], policies, order).ok}
    IN  IF bad = {} THEN 0 ELSE Min(bad)

\* a variant that looks at the first call of the batch only
validate_first_call_only(calls, policies, order) ==
    IF calls = <<>>
    THEN Err("InvalidInput", <<"No calls provided to execute.">>)
    ELSE validate_call(calls[1], policies, order)

validate_calls_against_policies(calls, policies, order) ==
    IF calls = <<>>
    THEN Err("InvalidInput", <<"No calls provided to execute.">>)
    ELSE LET i == FirstRejected(calls, policies, order)
         IN  IF i = 0 THEN Ok ELSE validate_call(calls[i], policies, order)

----------------------------------------------------------------------------
(* Inputs explored *)

\* contract addresses
Addr_a == <<"0", "x", "a">>
Addr_0a == <<"0", "x", "0", "a">>
Addr_A == <<"0", "x", "A">>
Addr_b == <<"0", "x", "b">>
Addr_d == <<"0", "x", "d">>
Addr_g == <<"0", "x", "g">>
Addr_G == <<"0", "x", "G">>

\* policy declarations a policy file or preset may contain (PolicyFile.contracts)
PF_Two == (Addr_0a :> ContractPolicy(<<MethodPolicy("transfer", TRUE), MethodPolicy("mint", FALSE)>>))
            @@ (Addr_b :> ContractPolicy(<<MethodPolicy("swap", TRUE)>>))

PF_BadAddress == (Addr_g :> ContractPolicy(<<MethodPolicy("transfer", TRUE)>>))

PolicyFiles == {PF_Two, PF_BadAddress}

\* call batches given to `execute`
ExecCallSpecs ==
    {CallSpec(Addr_a, "transfer"), CallSpec(Addr_a, "swap"),
     CallSpec(Addr_d, "transfer"), CallSpec(Addr_g, "transfer")}

Batches(specs) == UNION {[1..n -> specs] : n \in 0..MaxCalls}

----------------------------------------------------------------------------
(* Keys, sessions and the store *)

PrivateKeys == {1, 2}

\* SigningKey::verifying_key().scalar(): the public scalar of a private one
verifying_key(private_key) == private_key + 10

\* poseidon_hash(short_string!("Starknet Signer"), pubkey), an injective hash
poseidon_guid(pubkey_felt) == pubkey_felt + 100

HexDigitChar(d) ==
    CASE d = 0 -> "0" [] d = 1 -> "1" [] d = 2 -> "2" [] d = 3 -> "3"
      [] d = 4 -> "4" [] d = 5 -> "5" [] d = 6 -> "6" [] d = 7 -> "7"
      [] d = 8 -> "8" [] d = 9 -> "9" [] d = 10 -> "a" [] d = 11 -> "b"
      [] d = 12 -> "c" [] d = 13 -> "d" [] d = 14 -> "e" [] OTHER -> "f"

RECURSIVE HexDigits(_)
HexDigits(n) ==
    IF n < 16 THEN <<HexDigitChar(n)>>
    ELSE HexDigits(n \div 16) \o <<HexDigitChar(n % 16)>>

\* format!("0x{:x}", felt)
FormatHex(n) == <<"0", "x">> \o HexDigits(n)

\* the chain ids the approval authority may resolve, as short strings
ChainIds == {"SN_SEPOLIA"}

\* SessionInfo::chain_id_as_felt: cairo short string to felt
chain_id_as_felt(chain_id) ==
    CASE chain_id = "SN_SEPOLIA" -> Some(1)
      [] chain_id = "SN_MAIN" -> Some(2)
      [] OTHER -> None

\* format!("@cartridge/session/0x{:x}/0x{:x}", address, chain_id)
session_key(address, chain_id) == <<"@cartridge/session/", address, chain_id>>

SessionKeys == {session_key(a, c) : a \in {1}, c \in {1}}

EmptyStorage ==
    [session_signer |-> None,
     sessions |-> [k \in SessionKeys |-> None],
     controller |-> None,
     session_chain_id |-> None,
     session_rpc_url |-> None,
     session_policies |-> None,
     session_key_guid |-> None]

\* Session::is_expired of the SDK
is_expired(session, t) == t >= session.expires_at

\* serde_json::from_str::<PolicyStorage>: the JSON object (a sequence of
\* members) becomes a map; None when the text is not such an object
ParsePolicyStorage(json) ==
    [a \in {json[i][1] : i \in 1..Len(json)} |->
        (CHOOSE m \in {json[i] : i \in 1..Len(json)} : m[1] = a)[2]]

\* serde_json::to_string(&PolicyStorage): one member per map entry, in the
\* order the HashMap yields them
SerializePolicyStorage(contracts, order) ==
    [i \in 1..Len(order) |-> <<order[i], contracts[order[i]]>>]

----------------------------------------------------------------------------
(* The locals of a command *)

NewRun(cmd) ==
    [cmd |-> cmd,
     calls |-> <<>>,
     stored_policies |-> None,
     order |-> <<>>,
     rpc |-> "none",
     effective_rpc_url |-> "",
     source |-> "none",
     trace |-> <<>>,
     result |-> None,
     submitted |-> None,
     storage0 |-> EmptyStorage,
     key |-> 0,
     policy_file |-> None,
     policy_vec |-> <<>>,
     policies_json |-> <<>>,
     guid |-> <<>>,
     attempts |-> 0,
     answers |-> <<>>,
     started |-> 0,
     elapsed |-> 0,
     output |-> None,
     skip_confirm |-> FALSE,
     json_output |-> FALSE,
     overwrite |-> FALSE,
     input |-> None,
     contacted |-> FALSE,
     remote |-> <<>>,
     sent |-> {},
     chain_name |-> None,
     short_url |-> None,
     display_url |-> "none"]

Finish(r, res) == [r EXCEPT !.result = Some(res)]

Init ==
    /\ storage = EmptyStorage
    /\ now = 0
    /\ pc = "idle"
    /\ run = NewRun("none")

----------------------------------------------------------------------------
(* `execute` (commands/execute.rs) *)

RpcFlags == {"none", "cartridge", "foreign", "bad_chain"}

\* a variant of the gate that never looks at the expiry
load_session_unchecked(st, t) ==
    IF ~IsSome(st.controller)
    THEN Err("InvalidSessionData", <<"No controller metadata found. Run 'controller session auth' to create a session.">>)
    ELSE IF ~IsSome(st.sessions[session_key(Unwrap(st.controller).address, Unwrap(st.controller).chain_id)])
    THEN Err("NoSession", <<"Session not found">>)
    ELSE Ok

\* lines 85-115: controller metadata, then the session stored under its key,
\* then the expiry check
load_session(st, t) ==
    IF ~IsSome(st.controller)
    THEN Err("InvalidSessionData", <<"No controller metadata found. Run 'controller session auth' to create a session.">>)
    ELSE IF ~IsSome(st.sessions[session_key(Unwrap(st.controller).address, Unwrap(st.controller).chain_id)])
    THEN Err("NoSession", <<"Session not found">>)
    ELSE IF is_expired(Unwrap(st.sessions[session_key(Unwrap(st.controller).address,
                                                       Unwrap(st.controller).chain_id)]).session, t)
    THEN Err("SessionExpired", <<"Session expired">>)
    ELSE Ok

\* what backend.get("session_policies") hands back: an error, no value, a
\* value that is not a string, or a string
ReadFailed == [ok |-> FALSE, kind |-> "none", text |-> <<>>]
ReadAbsent == [ok |-> TRUE, kind |-> "none", text |-> <<>>]
ReadOther == [ok |-> TRUE, kind |-> "Other", text |-> <<>>]
ReadString(text) == [ok |-> TRUE, kind |-> "String", text |-> text]

\* the read of the key from a store the program wrote
backend_get_session_policies(st) ==
    IF IsSome(st.session_policies)
    THEN ReadString(Unwrap(st.session_policies))
    ELSE ReadAbsent

\* whether serde_json::from_str::<PolicyStorage> accepts the text: every
\* member is an address with a contract policy that has `methods`
IsPolicyStorageJson(text) ==
    \A i \in 1..Len(text) :
        /\ Len(text[i]) = 2
        /\ "methods" \in DOMAIN text[i][2]

\* a variant that takes a missing or unusable snapshot as one permitting
\* nothing
load_stored_policies_deny(read) ==
    IF read.ok /\ read.kind = "String" /\ IsPolicyStorageJson(read.text)
    THEN Some(ParsePolicyStorage(read.text))
    ELSE Some(ParsePolicyStorage(<<>>))

\* lines 143-151: .ok().flatten().and_then(..): a policy set only from a
\* string that parses, None from everything else
load_stored_policies(read) ==
    IF read.ok /\ read.kind = "String" /\ IsPolicyStorageJson(read.text)
    THEN Some(ParsePolicyStorage(read.text))
    ELSE None

\* lines 52-151: resolve the endpoint, read the calls, load controller
\* metadata and session, refuse an expired session, load the policy snapshot.
\* The batch read here is an input that nothing looks into before the
\* conversion of lines 211-235: its value is drawn there.
ExecuteBegin ==
    /\ pc = "idle"
    /\ \E bad_chain \in BOOLEAN, input_ok \in BOOLEAN :
        LET r0 == [NewRun("execute") EXCEPT !.storage0 = storage, !.started = now]
            key == IF IsSome(storage.controller)
                   THEN session_key(Unwrap(storage.controller).address,
                                    Unwrap(storage.controller).chain_id)
                   ELSE <<>>
        IN
        IF bad_chain
        THEN /\ input_ok
             /\ run' = Finish(r0, Err("InvalidInput", <<"Unsupported chain ID">>))
             /\ pc' = "idle"
        ELSE IF ~input_ok
        THEN /\ run' = Finish(r0, Err("InvalidInput", <<"Either --file or all of contract, entrypoint, calldata arguments must be provided">>))
             /\ pc' = "idle"
        ELSE IF ~load_session(storage, now).ok
        THEN /\ run' = Finish(r0, load_session(storage, now))
             /\ pc' = "idle"
        ELSE /\ run' = [r0 EXCEPT !.trace = <<"session_valid">>,
                                  !.key = Unwrap(storage.sessions[key]).credentials.private_key,
                                  !.stored_policies =
                                      load_stored_policies(backend_get_session_policies(storage))]
             /\ pc' = "exec_connect"
    /\ UNCHANGED <<storage, now>>

\* lines 153-208: validate an explicit endpoint against the session's chain,
\* then build the Controller
ExecuteConnect ==
    /\ pc = "exec_connect"
    /\ \E rpc \in {"none", "cartridge", "foreign"},
          rpc_answer \in {"ok", "mismatch", "down"}, controller_ok \in BOOLEAN :
        IF rpc = "foreign"
        THEN /\ rpc_answer = "ok" /\ controller_ok
             /\ run' = Finish(run, Err("InvalidInput", <<"Only Cartridge RPC endpoints are supported.">>))
             /\ pc' = "idle"
        ELSE IF rpc = "cartridge" /\ rpc_answer = "mismatch"
        THEN /\ controller_ok
             /\ run' = Finish(run, Err("InvalidInput", <<"Chain ID mismatch">>))
             /\ pc' = "idle"
        ELSE IF rpc = "cartridge" /\ rpc_answer = "down"
        THEN /\ controller_ok
             /\ run' = Finish(run, Err("InvalidInput", <<"RPC endpoint not responding">>))
             /\ pc' = "idle"
        ELSE /\ rpc_answer = "ok"
             /\ IF controller_ok
                THEN run' = run /\ pc' = "exec_validate"
                ELSE /\ run' = Finish(run, Err("Storage", <<"Failed to create controller">>))
                     /\ pc' = "idle"
    /\ UNCHANGED <<storage, now>>

\* lines 210-235: every call address must parse as a field element
CallsConvertible(calls) ==
    \A i \in 1..Len(calls) : IsSome(FeltFromHex(calls[i].contract_address))

\* lines 237-240: the enforcer runs when a policy snapshot was loaded; `order`
\* is the order in which the snapshot's HashMap yields its keys (line 350)
Enforce(r, order) ==
    validate_calls_against_policies(r.calls, Unwrap(r.stored_policies), order)

\* lines 210-240: convert the calls, then validate them against the snapshot
ExecuteValidate ==
    /\ pc = "exec_validate"
    /\ \E calls \in Batches(ExecCallSpecs) :
       LET r1 == [run EXCEPT !.calls = calls] IN
       IF ~CallsConvertible(calls)
       THEN /\ run' = Finish(r1, Err("InvalidInput", <<"Invalid contract address">>))
            /\ pc' = "idle"
       ELSE IF IsSome(r1.stored_policies)
       THEN \E order \in Perms(DOMAIN Unwrap(r1.stored_policies)) :
            LET v == Enforce(r1, order) IN
            IF v.ok
            THEN /\ run' = [r1 EXCEPT !.trace = Append(@, "enforcer_accepted")]
                 /\ pc' = "exec_submit"
            ELSE /\ run' = Finish([r1 EXCEPT !.trace = Append(@, "enforcer_rejected")], v)
                 /\ pc' = "idle"
       ELSE /\ run' = r1
            /\ pc' = "exec_submit"
    /\ UNCHANGED <<storage, now>>

\* lines 242-335: hand the batch to the signer / submitter and report
ExecuteSubmit ==
    /\ pc = "exec_submit"
    /\ \E outcome \in {"ok", "failed", "unconfirmed"} :
        LET r1 == [run EXCEPT !.trace = Append(@, "submitted"), !.submitted = Some(run.calls)]
        IN  run' = IF outcome = "ok" THEN Finish(r1, Ok)
                   ELSE Finish(r1, Err("TransactionFailed", <<outcome>>))
    /\ pc' = "idle"
    /\ UNCHANGED <<storage, now>>

----------------------------------------------------------------------------
(* `session auth` (commands/session/authorize.rs) *)

max_attempts == 3           \* authorize.rs:429
PollHoldSeconds == 120      \* authorize.rs:489, the server-side hold of one poll

\* how long one poll attempt may take: an immediate answer, or the full hold
PollDurations == {0, PollHoldSeconds}

\* what the user may type at the confirmation prompt (with the line end)
Answers == {<<"y", "\n">>, <<"Y", "E", "S", "\n">>, <<"n", "\n">>, <<"\n">>}

\* str::trim of a line read from stdin
trim(line) == SelectSeq(line, LAMBDA c : c # "\n" /\ c # " ")

\* a variant that takes every answer but "n" for a yes
ConfirmsUnlessNo(input) ==
    to_lowercase(trim(input)) # <<"n">>

\* line 127: matches!(input.trim().to_lowercase().as_str(), "y" | "yes")
Confirms(input) ==
    to_lowercase(trim(input)) \in {<<"y">>, <<"y", "e", "s">>}

\* byte-wise order of the entrypoint names in use
EntrypointRank(e) ==
    CASE e = "approve" -> 1 [] e = "mint" -> 2 [] e = "swap" -> 3
      [] e = "transfer" -> 4 [] OTHER -> 5

\* code of a character (ASCII)
CharCode(c) ==
    CASE c = "0" -> 48 [] c = "1" -> 49 [] c = "2" -> 50 [] c = "3" -> 51
      [] c = "4" -> 52 [] c = "5" -> 53 [] c = "6" -> 54 [] c = "7" -> 55
      [] c = "8" -> 56 [] c = "9" -> 57
      [] c = "A" -> 65 [] c = "B" -> 66 [] c = "C" -> 67 [] c = "D" -> 68
      [] c = "E" -> 69 [] c = "F" -> 70 [] c = "G" -> 71 [] c = "X" -> 88
      [] c = "a" -> 97 [] c = "b" -> 98 [] c = "c" -> 99 [] c = "d" -> 100
      [] c = "e" -> 101 [] c = "f" -> 102 [] c = "g" -> 103 [] c = "x" -> 120
      [] c = ":" -> 58
      [] OTHER -> 0

\* String::cmp: byte-wise lexicographic order, -1 / 0 / 1
RECURSIVE StrCmp(_, _)
StrCmp(s, t) ==
    IF s = <<>> /\ t = <<>> THEN 0
    ELSE IF s = <<>> THEN -1
    ELSE IF t = <<>> THEN 1
    ELSE IF CharCode(s[1]) < CharCode(t[1]) THEN -1
    ELSE IF CharCode(s[1]) > CharCode(t[1]) THEN 1
    ELSE StrCmp(Tail(s), Tail(t))

\* line 278-279: the contracts in HashMap order, stably sorted by lowercase key
sorted_contracts(order) ==
    CHOOSE p \in Perms({order[i] : i \in 1..Len(order)}) :
        \A i, j \in 1..Len(p) : i < j =>
            LET c == StrCmp(to_lowercase(p[i]), to_lowercase(p[j])) IN
            \/ c < 0
            \/ /\ c = 0
               /\ (CHOOSE k \in 1..Len(order) : order[k] = p[i])
                    < (CHOOSE k \in 1..Len(order) : order[k] = p[j])

\* line 298-299: the methods of one contract, stably sorted by entrypoint
sorted_methods(methods) ==
    LET idx == CHOOSE p \in Perms(1..Len(methods)) :
                  \A i, j \in 1..Len(methods) : i < j =>
                      \/ EntrypointRank(methods[p[i]].entrypoint) < EntrypointRank(methods[p[j]].entrypoint)
                      \/ /\ methods[p[i]].entrypoint = methods[p[j]].entrypoint
                         /\ p[i] < p[j]
    IN  [i \in 1..Len(methods) |-> methods[idx[i]]]

\* starknet::core::utils::get_selector_from_name, an injective hash
get_selector_from_name(entrypoint) == 1000 + EntrypointRank(entrypoint)

\* lines 301-319: the CallPolicy entries of one contract
contract_policies(address, contract) ==
    LET ms == sorted_methods(contract.methods) IN
    [i \in 1..Len(ms) |->
        [contract_address |-> Unwrap(FeltFromHex(address)),
         selector |-> get_selector_from_name(ms[i].entrypoint),
         authorized |-> ms[i].authorized]]

\* lines 272-323: policy_vec, contract after contract in sorted order
RECURSIVE policy_vec_of(_, _)
policy_vec_of(contracts, sorted) ==
    IF sorted = <<>> THEN <<>>
    ELSE contract_policies(sorted[1], contracts[sorted[1]])
            \o policy_vec_of(contracts, Tail(sorted))

\* a variant of the parser that lets both sources through
source_conflict_ignored(preset, file) == FALSE

\* main.rs:291-296: --preset and --file are declared conflicts_with each
\* other, so the argument parser refuses a command line that has both
source_conflict(preset, file) == preset /\ file

\* main.rs:291-296 and lines 96-133: the two sources exclude each other and
\* one is required; an unexpired stored session makes the command ask
\* before going on, unless --overwrite
AuthBegin ==
    /\ pc = "idle"
    /\ \E preset \in BOOLEAN, file \in BOOLEAN, overwrite \in BOOLEAN :
        LET r0 == [NewRun("auth") EXCEPT !.storage0 = storage, !.started = now,
                       !.overwrite = overwrite,
                       !.source = IF preset /\ file THEN "both"
                                  ELSE IF preset THEN "preset"
                                  ELSE IF file THEN "file" ELSE "none"]
            key == IF IsSome(storage.controller)
                   THEN session_key(Unwrap(storage.controller).address,
                                    Unwrap(storage.controller).chain_id)
                   ELSE <<>>
        IN
        IF source_conflict(preset, file)
        THEN /\ ~overwrite
             /\ run' = Finish(r0, Err("ArgumentConflict",
                                      <<"the argument '--preset' cannot be used with '--file'">>))
             /\ pc' = "idle"
        ELSE IF ~preset /\ ~file
        THEN /\ ~overwrite
             /\ run' = Finish(r0, Err("InvalidInput", <<"Session policies are required.">>))
             /\ pc' = "idle"
        ELSE IF /\ IsSome(storage.controller)
                /\ IsSome(storage.sessions[key])
                /\ ~is_expired(Unwrap(storage.sessions[key]).session, now)
                /\ ~overwrite
        THEN run' = r0 /\ pc' = "auth_prompt"
        ELSE run' = r0 /\ pc' = "auth_keygen"
    /\ UNCHANGED <<storage, now>>

\* lines 122-130: the answer read from stdin
AuthPrompt ==
    /\ pc = "auth_prompt"
    /\ \E input \in Answers :
        IF Confirms(input)
        THEN run' = [run EXCEPT !.input = Some(input)] /\ pc' = "auth_keygen"
        ELSE /\ run' = Finish([run EXCEPT !.input = Some(input),
                                          !.trace = Append(@, "aborted")], Ok)
             /\ pc' = "idle"
    /\ UNCHANGED <<storage, now>>

\* a variant that keeps a keypair that is already stored
persist_keypair_keeping(st, private_key) ==
    IF IsSome(st.session_signer) THEN st
    ELSE [st EXCEPT !.session_signer = Some(private_key)]

\* a variant that also forgets the stored sessions when the key is replaced
persist_keypair_resetting(st, private_key) ==
    [st EXCEPT !.session_signer = Some(private_key),
               !.sessions = [k \in SessionKeys |-> None]]

\* a variant that also drops the stored guid, which belongs to the old key
persist_keypair_dropping_guid(st, private_key) ==
    [st EXCEPT !.session_signer = Some(private_key),
               !.session_key_guid = None]

\* lines 169-180: backend.set("session_signer", ..), overwriting the old key
persist_keypair(st, private_key) ==
    [st EXCEPT !.session_signer = Some(private_key)]

\* lines 135-180: resolve the endpoint, generate the keypair, persist it
AuthKeygen ==
    /\ pc = "auth_keygen"
    /\ \E rpc \in RpcFlags, signing_key \in PrivateKeys, write_ok \in BOOLEAN :
        \* --overwrite and the answer are not read after the gate (lines 107-133)
        LET r0 == [run EXCEPT !.overwrite = FALSE, !.input = None] IN
        IF rpc = "bad_chain"
        THEN /\ signing_key = 1 /\ write_ok
             /\ run' = Finish(r0, Err("InvalidInput", <<"Unsupported chain ID">>))
             /\ pc' = "idle"
             /\ storage' = storage
        ELSE IF ~write_ok
        THEN /\ signing_key = 1
             /\ run' = Finish(r0, Err("Storage", <<"session_signer">>))
             /\ pc' = "idle"
             /\ storage' = storage
        ELSE /\ storage' = persist_keypair(storage, signing_key)
             /\ run' = [r0 EXCEPT !.rpc = rpc, !.key = signing_key]
             /\ pc' = "auth_policies"
    /\ UNCHANGED now

\* serde_json::Map: a BTreeMap ordered by key bytes, or, built with the
\* preserve_order feature, a map that keeps the order of insertion
json_map_keys(inserted, preserve_order) ==
    IF preserve_order THEN inserted
    ELSE CHOOSE p \in Perms({inserted[i] : i \in 1..Len(inserted)}) :
             \A i, j \in 1..Len(p) : i < j => StrCmp(p[i], p[j]) < 0

\* lines 263-290 and 329: the "contracts" object of the policies JSON that
\* goes into the authorization URL: one member per contract, inserted in
\* sorted order, each with the methods as the policy file lists them
policies_json_of(contracts, sorted, preserve_order) ==
    LET keys == json_map_keys(sorted, preserve_order) IN
    [i \in 1..Len(keys) |-> <<keys[i], [methods |-> contracts[keys[i]].methods]>>]

\* presets.rs:46-47: the GET of the preset's config.json
PresetFetch == [to |-> "presets", fields |-> {<<"preset_name", <<"P">>>>}]

\* lines 191-203 and 346-354: the chain_id call to the RPC endpoint
RpcChainIdQuery == [to |-> "rpc", fields |-> {<<"method", <<"starknet_chainId">>>>}]

\* a variant of the URL that also carries the private scalar
AuthorizationUrlWithSecret(r, rpc_url) ==
    [to |-> "keychain",
     fields |-> {<<"public_key", FormatHex(verifying_key(r.key))>>,
                 <<"private_key", FormatHex(r.key)>>,
                 <<"policies", <<"json", r.policies_json>>>>,
                 <<"rpc_url", <<rpc_url>>>>}]

\* lines 371-382: the query pairs of the authorization URL
AuthorizationUrl(r, rpc_url) ==
    [to |-> "keychain",
     fields |-> {<<"public_key", FormatHex(verifying_key(r.key))>>,
                 <<"redirect_uri", <<"https://x.cartridge.gg">>>>,
                 <<"policies", <<"json", r.policies_json>>>>,
                 <<"rpc_url", <<rpc_url>>>>,
                 <<"mode", <<"cli">>>>}]

\* api.rs:9-33: the POST to the shortener carries the whole URL
ShortenRequest(url) == [to |-> "shortener", fields |-> url.fields]

\* api.rs:75-145: the long-poll query carries the guid
SessionInfoQuery(session_key_guid) ==
    [to |-> "api", fields |-> {<<"sessionKeyGuid", session_key_guid>>}]

\* a variant that shows nothing when the shortener failed
display_url_or_nothing(short_url) ==
    IF IsSome(short_url) THEN Unwrap(short_url) ELSE "none"

\* line 390: short_url.as_deref().unwrap_or(&authorization_url)
display_url_of(short_url) ==
    IF IsSome(short_url) THEN Unwrap(short_url) ELSE "full"

\* lines 182-425: load the policies from the one source, build policy_vec in
\* canonical order, validate the endpoint, issue the URL, derive the guid
AuthPolicies ==
    /\ pc = "auth_policies"
    /\ \E outcome \in {"ok", "source_failed", "rpc_down"}, contracts \in PolicyFiles,
          preserve_order \in BOOLEAN :
       \E order \in Perms(DOMAIN contracts) :
        LET public_key == FormatHex(verifying_key(run.key))
            guid == FormatHex(poseidon_guid(Unwrap(FeltFromHex(public_key))))
            \* a preset is fetched over the network (line 185), a file is read
            fetched == [run EXCEPT !.contacted = run.source \in {"preset", "both"},
                                   !.sent = IF run.source \in {"preset", "both"}
                                            THEN {PresetFetch} ELSE {}]
            queried == [fetched EXCEPT !.contacted = TRUE,
                                       !.sent = @ \cup {RpcChainIdQuery}]
            rpc_url == "https://api.cartridge.gg/x/starknet/sepolia"
            issued == [queried EXCEPT
                          !.policies_json = policies_json_of(contracts, sorted_contracts(order),
                                                             preserve_order)]
            url == AuthorizationUrl(issued, rpc_url)
        IN
        IF outcome = "source_failed"
        THEN /\ contracts = PF_Two
             /\ run' = Finish(fetched, Err("InvalidInput", <<"Failed to load policies">>))
             /\ pc' = "idle"
        ELSE IF outcome = "rpc_down" /\ run.source \in {"preset", "both"}
        THEN /\ contracts = PF_Two
             /\ run' = Finish(queried, Err("InvalidInput", <<"Failed to query chain_id from RPC">>))
             /\ pc' = "idle"
        ELSE IF \E a \in DOMAIN contracts : ~IsSome(FeltFromHex(a))
        THEN /\ outcome = "ok"
             /\ run' = Finish(fetched, Err("InvalidInput", <<"Invalid contract address">>))
             /\ pc' = "idle"
        ELSE IF run.rpc = "foreign"
        THEN /\ outcome = "ok"
             /\ run' = Finish(fetched, Err("InvalidInput", <<"Only Cartridge RPC endpoints are supported.">>))
             /\ pc' = "idle"
        ELSE IF outcome = "rpc_down" /\ run.rpc # "none"
        THEN /\ run' = Finish(queried, Err("InvalidInput", <<"RPC endpoint not responding">>))
             /\ pc' = "idle"
        ELSE /\ \E shortened \in BOOLEAN :
                  LET short_url == IF shortened THEN Some("short") ELSE None IN
                  run' = [issued EXCEPT
                             !.source = "loaded",
                             !.effective_rpc_url = rpc_url,
                             !.policy_file = Some(contracts),
                             !.policy_vec = policy_vec_of(contracts, sorted_contracts(order)),
                             !.sent = @ \cup {url, ShortenRequest(url)},
                             \* lines 354-369: a failed chain_id query only loses the name
                             !.chain_name = IF outcome = "rpc_down" THEN None
                                            ELSE Some("SN_SEPOLIA"),
                             \* lines 384-391: the short URL if there is one
                             !.short_url = short_url,
                             !.display_url = display_url_of(short_url),
                             !.guid = guid,
                             !.attempts = 0]
             /\ pc' = "auth_poll"
    /\ UNCHANGED <<storage, now>>

\* what the approval authority may return as an approved SessionInfo
SessionInfos ==
    [authorization : {<<Addr_a>>, <<Addr_g>>},
     address : {<<"0", "x", "1">>},
     chain_id : ChainIds,
     expires_at : {240},
     account_id : {"alice"}]

\* lines 499-572: the records built from an approved SessionInfo
SessionMetadataOf(r, st, session_info) ==
    [session |-> [policies |-> r.policy_vec,
                  expires_at |-> session_info.expires_at,
                  session_key_guid |->
                      poseidon_guid(Unwrap(FeltFromHex(FormatHex(verifying_key(r.key))))),
                  guardian_key_guid |-> 0],
     credentials |-> [authorization |-> [i \in 1..Len(session_info.authorization) |->
                                            Unwrap(FeltFromHex(session_info.authorization[i]))],
                      private_key |-> Unwrap(st.session_signer)],
     is_registered |-> TRUE]

ControllerMetadataOf(session_info) ==
    [address |-> Unwrap(FeltFromHex(session_info.address)),
     chain_id |-> Unwrap(chain_id_as_felt(session_info.chain_id)),
     class_hash |-> 0,
     username |-> session_info.account_id]

\* a variant whose last write stores a guid computed anew, from the address
\* the approval names instead of the public key of the run
ApprovalWritesFreshGuid(r, st, session_info, n) ==
    LET cm == ControllerMetadataOf(session_info)
        w1 == IF n >= 1
              THEN [st EXCEPT !.sessions[session_key(cm.address, cm.chain_id)] =
                                  Some(SessionMetadataOf(r, st, session_info))]
              ELSE st
        w2 == IF n >= 2 THEN [w1 EXCEPT !.controller = Some(cm)] ELSE w1
        w3 == IF n >= 3 THEN [w2 EXCEPT !.session_chain_id = Some(session_info.chain_id)] ELSE w2
        w4 == IF n >= 4 THEN [w3 EXCEPT !.session_rpc_url = Some(r.effective_rpc_url)] ELSE w3
        w5 == IF n >= 5
              THEN [w4 EXCEPT !.session_policies =
                                  Some(SerializePolicyStorage(Unwrap(r.policy_file), r.order))]
              ELSE w4
        w6 == IF n >= 6
              THEN [w5 EXCEPT !.session_key_guid = Some(FormatHex(poseidon_guid(cm.address)))]
              ELSE w5
    IN  w6

\* lines 440-472 and 574-586: the six writes of an approval, in program
\* order; the first n of them take effect
ApprovalWrites(r, st, session_info, n) ==
    LET cm == ControllerMetadataOf(session_info)
        w1 == IF n >= 1
              THEN [st EXCEPT !.sessions[session_key(cm.address, cm.chain_id)] =
                                  Some(SessionMetadataOf(r, st, session_info))]
              ELSE st
        w2 == IF n >= 2 THEN [w1 EXCEPT !.controller = Some(cm)] ELSE w1
        w3 == IF n >= 3 THEN [w2 EXCEPT !.session_chain_id = Some(session_info.chain_id)] ELSE w2
        w4 == IF n >= 4 THEN [w3 EXCEPT !.session_rpc_url = Some(r.effective_rpc_url)] ELSE w3
        w5 == IF n >= 5
              THEN [w4 EXCEPT !.session_policies =
                                  Some(SerializePolicyStorage(Unwrap(r.policy_file), r.order))]
              ELSE w4
        w6 == IF n >= 6 THEN [w5 EXCEPT !.session_key_guid = Some(r.guid)] ELSE w5
    IN  w6

\* the writes of an approval, in program order
ApprovalWriteOrder ==
    <<"session", "controller", "session_chain_id", "session_rpc_url",
      "session_policies", "session_key_guid">>

NumApprovalWrites == Len(ApprovalWriteOrder)

\* faulty variants of the timeout report
TimeoutSecondsElapsed(r, t) == r.elapsed
BudgetExhaustedLate(attempts) == attempts > max_attempts

\* line 489: the seconds a timeout reports
TimeoutSeconds(r, t) == max_attempts * PollHoldSeconds

\* a variant that gives up one attempt early
BudgetExhaustedEarly(attempts) == attempts >= max_attempts - 1

\* line 488: is the budget used up?
BudgetExhausted(attempts) == attempts >= max_attempts

\* lines 432-495: one turn of the poll loop: one long-poll query, then either
\* the approval is stored, or the loop goes on, or the budget is exhausted
AuthPoll ==
    /\ pc = "auth_poll"
    /\ \E answer \in {"none", "approved", "error"}, d \in PollDurations :
        /\ now + d <= MaxTime
        /\ now' = now + d
        \* the endpoint flag, the chain name and the URLs shown are not read in
        \* the loop
        /\ LET r1 == [run EXCEPT !.attempts = @ + 1, !.answers = Append(@, answer),
                                 !.elapsed = @ + d,
                                 !.rpc = "none", !.chain_name = None,
                                 !.short_url = None, !.display_url = "none",
                                 !.sent = @ \cup {SessionInfoQuery(run.guid)}] IN
           CASE answer = "error" ->
                  /\ run' = Finish(r1, Err("ApiError", <<"Failed to query session info">>))
                  /\ pc' = "idle"
                  /\ storage' = storage
             [] answer = "none" ->
                  /\ storage' = storage
                  /\ IF BudgetExhausted(r1.attempts)
                     THEN /\ run' = Finish(r1, CallbackTimeout(TimeoutSeconds(r1, now')))
                          /\ pc' = "idle"
                     ELSE run' = r1 /\ pc' = "auth_poll"
             [] answer = "approved" ->
                  \E session_info \in SessionInfos, n \in 0..NumApprovalWrites :
                    IF ~IsSome(storage.session_signer)
                    THEN /\ n = 0
                         /\ run' = Finish(r1, Err("NoSession", <<"Session not found">>))
                         /\ pc' = "idle"
                         /\ storage' = storage
                    ELSE IF \E i \in 1..Len(session_info.authorization) :
                                ~IsSome(FeltFromHex(session_info.authorization[i]))
                    THEN /\ n = 0
                         /\ run' = Finish(r1, Err("InvalidSessionData", <<"Invalid authorization hex">>))
                         /\ pc' = "idle"
                         /\ storage' = storage
                    ELSE /\ \E order \in Perms(DOMAIN Unwrap(r1.policy_file)) :
                              storage' = ApprovalWrites([r1 EXCEPT !.order = order],
                                                        storage, session_info, n)
                         /\ run' = IF n = NumApprovalWrites
                                   THEN Finish([r1 EXCEPT !.trace = Append(@, "stored")], Ok)
                                   ELSE Finish(r1, Err("Storage", <<"write failed">>))
                         /\ pc' = "idle"

----------------------------------------------------------------------------
(* `session status` (commands/status.rs) *)

\* starknet::core::utils::parse_cairo_short_string of a stored chain id
parse_cairo_short_string(felt) ==
    CASE felt = 1 -> "SN_SEPOLIA"
      [] felt = 2 -> "SN_MAIN"
      [] OTHER -> "0x?"

\* String::cmp of two entries "{addr}:{entrypoint}" (line 107, entries.sort())
EntryCmp(e1, e2) ==
    LET c == StrCmp(e1[1] \o <<":">>, e2[1] \o <<":">>) IN
    IF c # 0 THEN c
    ELSE IF EntrypointRank(e1[2]) < EntrypointRank(e2[2]) THEN -1
    ELSE IF EntrypointRank(e1[2]) > EntrypointRank(e2[2]) THEN 1
    ELSE 0

\* lines 96-106: one entry per contract and method of the snapshot (the
\* policy files in use list no entrypoint twice under one key)
PolicyEntries(contracts) ==
    UNION {{<<a, contracts[a].methods[i].entrypoint>> : i \in 1..Len(contracts[a].methods)} :
              a \in DOMAIN contracts}

\* lines 86-109: the stored snapshot as a sorted list of entries
status_policies(st) ==
    IF ~IsSome(st.session_policies) THEN None
    ELSE LET es == PolicyEntries(ParsePolicyStorage(Unwrap(st.session_policies))) IN
         Some(CHOOSE p \in Perms(es) :
                  \A i, j \in 1..Len(p) : i < j => EntryCmp(p[i], p[j]) < 0)

\* lines 123-133: the public key of the stored keypair, or the empty string
status_public_key(st) ==
    IF IsSome(st.session_signer)
    THEN FormatHex(verifying_key(Unwrap(st.session_signer)))
    ELSE <<>>

\* a variant that reports the session also when the guid scalar is missing
status_session_without_guid(st, t) ==
    IF ~IsSome(st.controller) THEN [session |-> None, outdated |-> FALSE]
    ELSE LET controller == Unwrap(st.controller)
             k == session_key(controller.address, controller.chain_id)
         IN
         IF ~IsSome(st.sessions[k]) THEN [session |-> None, outdated |-> FALSE]
         ELSE LET metadata == Unwrap(st.sessions[k]) IN
              [session |-> Some([guid |-> IF IsSome(st.session_key_guid)
                                          THEN Unwrap(st.session_key_guid) ELSE <<>>,
                                 public_key |-> status_public_key(st),
                                 address |-> FormatHex(controller.address),
                                 chain_id |-> parse_cairo_short_string(controller.chain_id),
                                 expires_at |-> metadata.session.expires_at,
                                 expires_in_seconds |-> metadata.session.expires_at - t,
                                 is_expired |-> is_expired(metadata.session, t),
                                 policies |-> status_policies(st)]),
               outdated |-> FALSE]

\* lines 57-159: the session the command reports, and whether it warns that
\* the session data is outdated
status_session(st, t) ==
    IF ~IsSome(st.controller) THEN [session |-> None, outdated |-> FALSE]
    ELSE LET controller == Unwrap(st.controller)
             k == session_key(controller.address, controller.chain_id)
         IN
         IF ~IsSome(st.sessions[k]) THEN [session |-> None, outdated |-> FALSE]
         ELSE IF ~IsSome(st.session_key_guid) THEN [session |-> None, outdated |-> TRUE]
         ELSE LET metadata == Unwrap(st.sessions[k]) IN
              [session |-> Some([guid |-> Unwrap(st.session_key_guid),
                                 public_key |-> status_public_key(st),
                                 address |-> FormatHex(controller.address),
                                 chain_id |-> parse_cairo_short_string(controller.chain_id),
                                 expires_at |-> metadata.session.expires_at,
                                 expires_in_seconds |-> metadata.session.expires_at - t,
                                 is_expired |-> is_expired(metadata.session, t),
                                 policies |-> status_policies(st)]),
               outdated |-> FALSE]

\* lines 150 and 167-169: the warning and the hint printed with the output
status_messages(s) ==
    (IF s.outdated THEN <<"Session data is outdated.">> ELSE <<>>)
        \o (IF s.session = None THEN <<"No session found.">> ELSE <<>>)

\* lines 47-172: the whole command; it reads the store and always succeeds
SessionStatus ==
    /\ pc = "idle"
    /\ LET s == status_session(storage, now)
       IN  run' = Finish([NewRun("status") EXCEPT !.storage0 = storage, !.started = now,
                                                   !.output = Some([session |-> s.session]),
                                                   !.trace = status_messages(s)], Ok)
    /\ UNCHANGED <<storage, now, pc>>

----------------------------------------------------------------------------
(* `session clear` (commands/clear.rs) *)

\* str::eq_ignore_ascii_case
eq_ignore_ascii_case(s, t) == to_lowercase(s) = to_lowercase(t)

\* a variant of the check that takes every answer but "n" for a yes
ClearConfirmsUnlessNo(input) ==
    ~eq_ignore_ascii_case(trim(input), <<"n">>)

\* line 31: the answer is y or yes, in any case
ClearConfirms(input) ==
    \/ eq_ignore_ascii_case(trim(input), <<"y">>)
    \/ eq_ignore_ascii_case(trim(input), <<"y", "e", "s">>)

\* line 20: the confirmation is asked for only in human output mode
AsksBeforeClear(skip_confirm, json_output) == ~skip_confirm /\ ~json_output

\* FileSystemBackend::clear: every key of the store is removed
ClearedStorage(st) == EmptyStorage

\* lines 12-49: the whole command: ask unless --yes or JSON output, then
\* clear the store
SessionClear ==
    /\ pc = "idle"
    /\ \E skip_confirm \in BOOLEAN, json_output \in BOOLEAN, input \in Answers,
          clear_ok \in BOOLEAN :
        LET r0 == [NewRun("clear") EXCEPT !.storage0 = storage, !.started = now,
                       !.skip_confirm = skip_confirm, !.json_output = json_output]
        IN
        IF AsksBeforeClear(skip_confirm, json_output)
        THEN IF ~ClearConfirms(input)
             THEN /\ clear_ok
                  /\ run' = Finish([r0 EXCEPT !.answers = <<input>>,
                                              !.trace = <<"asked", "Cancelled.">>], Ok)
                  /\ storage' = storage
             ELSE IF clear_ok
             THEN /\ run' = Finish([r0 EXCEPT !.answers = <<input>>,
                                              !.trace = <<"asked", "cleared">>], Ok)
                  /\ storage' = ClearedStorage(storage)
             ELSE /\ run' = Finish([r0 EXCEPT !.answers = <<input>>,
                                              !.trace = <<"asked">>],
                                   Err("Storage", <<"clear failed">>))
                  /\ storage' = storage
        ELSE /\ input = <<"\n">>
             /\ IF clear_ok
                THEN /\ run' = Finish([r0 EXCEPT !.trace = <<"cleared">>], Ok)
                     /\ storage' = ClearedStorage(storage)
                ELSE /\ run' = Finish(r0, Err("Storage", <<"clear failed">>))
                     /\ storage' = storage
    /\ UNCHANGED <<now, pc>>

----------------------------------------------------------------------------
(* `session list` (commands/session/list.rs) and the expiry rule *)

\* a variant that still shows a session at the second it expires
format_expires_late(ts, t) ==
    IF ts < t THEN <<"expired">> ELSE <<ToString((ts - t) \div 60), "m">>

\* lines 144-166: "expired" from the second of expiry on, else the time left
format_expires(ts, t) ==
    IF ts <= t THEN <<"expired">>
    ELSE LET remaining == ts - t
             days == remaining \div 86400
             hours == (remaining % 86400) \div 3600
             minutes == (remaining % 3600) \div 60
         IN
         IF days > 0 THEN <<ToString(days), "d", " ", ToString(hours), "h">>
         ELSE IF hours > 0 THEN <<ToString(hours), "h", " ", ToString(minutes), "m">>
         ELSE <<ToString(minutes), "m">>

\* lines 212-220: the query asks for the sessions with isRevoked: false
query_sessions(nodes) == SelectSeq(nodes, LAMBDA n : ~n.is_revoked)

\* lines 27-142: the whole command: the controller metadata, the stored
\* guid, the sessions the API knows for the controller, one entry for each
SessionList ==
    /\ pc = "idle"
    /\ \E api_ok \in BOOLEAN, is_revoked \in BOOLEAN :
        LET r0 == [NewRun("list") EXCEPT !.storage0 = storage, !.started = now]
            key == session_key(Unwrap(storage.controller).address,
                               Unwrap(storage.controller).chain_id)
            \* what the API holds: the approved session of this store
            nodes == IF IsSome(storage.sessions[key])
                     THEN <<[session_key_guid |->
                                 FormatHex(Unwrap(storage.sessions[key]).session.session_key_guid),
                             expires_at |-> Unwrap(storage.sessions[key]).session.expires_at,
                             is_revoked |-> is_revoked]>>
                     ELSE <<>>
            edges == query_sessions(nodes)
            sessions == [i \in 1..Len(edges) |->
                            [guid |-> edges[i].session_key_guid,
                             expires_at |-> edges[i].expires_at,
                             expires_in |-> format_expires(edges[i].expires_at, now),
                             is_current |-> storage.session_key_guid
                                                = Some(edges[i].session_key_guid)]]
        IN
        IF ~IsSome(storage.controller)
        THEN /\ api_ok /\ ~is_revoked
             /\ run' = Finish(r0, Err("NoSession", <<"Session not found">>))
        ELSE IF ~api_ok
        THEN /\ ~is_revoked
             /\ run' = Finish(r0, Err("ApiError", <<"GraphQL request failed">>))
        ELSE run' = Finish([r0 EXCEPT !.remote = nodes,
                                      !.output = Some([total_count |-> Len(edges),
                                                       sessions |-> sessions])], Ok)
    /\ UNCHANGED <<storage, now, pc>>

\* the times tried: around the boundary and around each unit of the display
ExpiryStamps == {0, 1, 59, 60, 61, 3600, 3661, 86399, 86400, 90061}

\* the store after an approval of a session that expires at e
StoreExpiring(e) ==
    LET session_info == [(CHOOSE i \in SessionInfos : i.authorization = <<Addr_a>>)
                             EXCEPT !.expires_at = e]
        order == sorted_contracts(CHOOSE o \in Perms(DOMAIN PF_Two) : TRUE)
        r == [NewRun("auth") EXCEPT
                 !.key = 1,
                 !.policy_file = Some(PF_Two),
                 !.order = order,
                 !.policy_vec = policy_vec_of(PF_Two, order),
                 !.guid = FormatHex(poseidon_guid(Unwrap(FeltFromHex(
                              FormatHex(verifying_key(1)))))),
                 !.effective_rpc_url = "https://api.cartridge.gg/x/starknet/sepolia"]
    IN  ApprovalWrites(r, persist_keypair(EmptyStorage, 1), session_info, NumApprovalWrites)

\* every command that classifies the stored session, at any of the times
InitExpiry ==
    /\ \E e \in ExpiryStamps : storage = StoreExpiring(e)
    /\ now \in ExpiryStamps
    /\ pc = "idle"
    /\ run = NewRun("none")

NextExpiry ==
    \/ ExecuteBegin
    \/ AuthBegin
    \/ SessionStatus
    \/ SessionList

SpecExpiry == InitExpiry /\ [][NextExpiry]_vars

----------------------------------------------------------------------------
(* The canonical order of a policy set (authorize.rs:268-323) *)

\* method lists a contract may declare
CanonMethodLists ==
    {<<MethodPolicy("swap", TRUE)>>,
     <<MethodPolicy("transfer", TRUE), MethodPolicy("mint", FALSE)>>,
     <<MethodPolicy("transfer", TRUE), MethodPolicy("transfer", FALSE)>>}

\* contract keys a policy file may hold: three spellings of one address and
\* another address
CanonAddresses == {Addr_a, Addr_A, Addr_0a, Addr_b}

\* PolicyFile.contracts with two contracts
CanonFiles ==
    UNION {[keys -> {ContractPolicy(ms) : ms \in CanonMethodLists}] :
              keys \in {k \in SUBSET CanonAddresses : Cardinality(k) = 2}}

\* a sequence back to front
Reversed(seq) == [i \in 1..Len(seq) |-> seq[Len(seq) + 1 - i]]

\* lines 278-299: the contracts in canonical order, each with its methods
\* in canonical order: the policy set as policy_vec is built from it
canonical_contracts(contracts, order) ==
    LET sorted == sorted_contracts(order) IN
    [i \in 1..Len(sorted) |->
        <<sorted[i], ContractPolicy(sorted_methods(contracts[sorted[i]].methods))>>]

\* the same, from contracts that are already a sequence of entries
canonical_again(entries) ==
    canonical_contracts([a \in {entries[i][1] : i \in 1..Len(entries)} |->
                            (CHOOSE x \in {entries[i] : i \in 1..Len(entries)} : x[1] = a)[2]],
                        [i \in 1..Len(entries) |-> entries[i][1]])

\* what one canonicalization leaves behind, and what a second one gave
CanonRun(file, canonical, policy_vec, how, canonical2, policy_vec2) ==
    [cmd |-> "canon", file |-> file, canonical |-> canonical, policy_vec |-> policy_vec,
     how |-> how, canonical2 |-> canonical2, policy_vec2 |-> policy_vec2]

InitCanon ==
    /\ storage = EmptyStorage
    /\ now = 0
    /\ pc = "canon"
    /\ \E file \in CanonFiles : run = CanonRun(file, <<>>, <<>>, "none", <<>>, <<>>)

\* lines 268-323 on the file as the HashMap yields it
Canonicalize ==
    /\ pc = "canon"
    /\ \E order \in Perms(DOMAIN run.file) :
        run' = CanonRun(run.file, canonical_contracts(run.file, order),
                        policy_vec_of(run.file, sorted_contracts(order)), "none", <<>>, <<>>)
    /\ pc' = "canonical"
    /\ UNCHANGED <<storage, now>>

\* the canonicalization applied to its own result
CanonicalizeAgain ==
    /\ pc = "canonical"
    /\ LET again == canonical_again(run.canonical)
           contracts == [a \in DOMAIN run.file |->
                            (CHOOSE x \in {again[i] : i \in 1..Len(again)} : x[1] = a)[2]]
       IN  run' = [run EXCEPT !.how = "again", !.canonical2 = again,
                       !.policy_vec2 = policy_vec_of(contracts,
                                           [i \in 1..Len(again) |-> again[i][1]])]
    /\ pc' = "compared"
    /\ UNCHANGED <<storage, now>>

\* the canonicalization of the same contracts and methods given in another
\* order: another HashMap order, method lists back to front
CanonicalizeReordered ==
    /\ pc = "canonical"
    /\ \E order \in Perms(DOMAIN run.file), flipped \in SUBSET DOMAIN run.file :
        LET file2 == [a \in DOMAIN run.file |->
                        IF a \in flipped
                        THEN ContractPolicy(Reversed(run.file[a].methods))
                        ELSE run.file[a]]
        IN  run' = [run EXCEPT !.how = "reordered",
                        !.canonical2 = canonical_contracts(file2, order),
                        !.policy_vec2 = policy_vec_of(file2, sorted_contracts(order))]
    /\ pc' = "compared"
    /\ UNCHANGED <<storage, now>>

\* the canonicalization of the policy set after serde_json::to_string and
\* serde_json::from_str
CanonicalizeDecoded ==
    /\ pc = "canonical"
    /\ \E written \in Perms(DOMAIN run.file) :
        LET decoded == ParsePolicyStorage(SerializePolicyStorage(run.file, written)) IN
        \E order \in Perms(DOMAIN decoded) :
            run' = [run EXCEPT !.how = "decoded",
                        !.canonical2 = canonical_contracts(decoded, order),
                        !.policy_vec2 = policy_vec_of(decoded, sorted_contracts(order))]
    /\ pc' = "compared"
    /\ UNCHANGED <<storage, now>>

NextCanon ==
    \/ Canonicalize
    \/ CanonicalizeAgain
    \/ CanonicalizeReordered
    \/ CanonicalizeDecoded

SpecCanon == InitCanon /\ [][NextCanon]_vars

----------------------------------------------------------------------------
(* Account labels and storage roots (config.rs, main.rs) *)

AccountNameMax == 64        \* config.rs:215

\* char::is_ascii_alphanumeric, on the characters in use
is_ascii_alphanumeric(c) ==
    c \in {"0", "1", "2", "3", "4", "5", "6", "7", "8", "9",
           "a", "b", "c", "d", "e", "f", "g", "x", "y", "s", "n",
           "A", "B", "C", "D", "E", "F", "G", "X", "Y", "S", "N"}

\* config.rs:211-227: non-empty, at most 64 characters, all of them
\* alphanumeric, '-' or '_'
validate_account_name(name) ==
    /\ name # <<>>
    /\ Len(name) <= AccountNameMax
    /\ \A i \in 1..Len(name) :
          is_ascii_alphanumeric(name[i]) \/ name[i] = "-" \/ name[i] = "_"

\* Path::components: the pieces of a path string between separators
Components(str) ==
    LET starts == {i \in 1..Len(str) : str[i] # "/" /\ (i = 1 \/ str[i - 1] = "/")}
        EndOf(i) == CHOOSE j \in i..Len(str) :
                        /\ \A k \in i..j : str[k] # "/"
                        /\ (j = Len(str) \/ str[j + 1] = "/")
        Nth(n) == CHOOSE i \in starts : Cardinality({t \in starts : t <= i}) = n
    IN  [n \in 1..Cardinality(starts) |-> SubSeq(str, Nth(n), EndOf(Nth(n)))]

\* PathBuf::join: an absolute argument replaces the path, a relative one is
\* appended component by component
PathJoin(path, str) ==
    IF str # <<>> /\ str[1] = "/" THEN Components(str)
    ELSE path \o Components(str)

\* the directory a path names on disk: "." stays, ".." goes one level up
RECURSIVE OnDisk(_, _)
OnDisk(path, acc) ==
    IF path = <<>> THEN acc
    ELSE IF path[1] = <<".">> THEN OnDisk(Tail(path), acc)
    ELSE IF path[1] = <<".", ".">>
    THEN OnDisk(Tail(path), IF acc = <<>> THEN <<>> ELSE SubSeq(acc, 1, Len(acc) - 1))
    ELSE OnDisk(Tail(path), Append(acc, path[1]))

\* the configured session.storage_path, after tilde expansion
BasePath == <<<<"b", "a", "s", "e">>>>

\* config.rs:236-249: <base>/accounts/<name> for a label, <base> without
\* (the assertion of lines 240-243 holds: main.rs validated the label)
resolve_storage_path(account) ==
    IF IsSome(account)
    THEN PathJoin(PathJoin(BasePath, <<"a", "c", "c", "o", "u", "n", "t", "s">>),
                  Unwrap(account))
    ELSE BasePath

\* a name of n characters
LongName(n) == [i \in 1..n |-> "a"]

\* the values of the global --account flag that are tried
AccountFlags ==
    {None,
     Some(<<"B", "_", "1">>), Some(LongName(AccountNameMax)),
     Some(<<>>), Some(LongName(AccountNameMax + 1)),
     Some(<<".", ".">>), Some(<<".", ".", "/", ".", ".">>),
     Some(<<"a", "/", "b">>), Some(<<"/", "a">>), Some(<<"a", " ", "b">>)}

\* main.rs:363-369: a label is validated before any command uses it
AccountAccepted(account) ==
    IsSome(account) => validate_account_name(Unwrap(account))

\* the directory the store of an account is opened at
RootOf(account) == OnDisk(resolve_storage_path(account), <<>>)

\* the directories that hold a store
AccountRoots == {RootOf(account) : account \in {a \in AccountFlags : AccountAccepted(a)}}

\* what a command run under an account label leaves behind
AcctRun(cmd, account, root, result, output) ==
    [cmd |-> cmd, account |-> account, root |-> root, result |-> Some(result),
     output |-> output]

InitAccounts ==
    /\ storage = [d \in AccountRoots |-> EmptyStorage]
    /\ now = 0
    /\ pc = "accounts"
    /\ run = AcctRun("none", None, None, Ok, None)

\* main.rs:363-369: an invalid label ends the process before the dispatch
AcctRejected ==
    /\ pc = "accounts"
    /\ \E account \in AccountFlags :
        /\ ~AccountAccepted(account)
        /\ run' = AcctRun("rejected", account, None,
                          Err("InvalidInput", <<"invalid account name">>), None)
    /\ UNCHANGED <<storage, now, pc>>

\* authorize.rs:108 and 167: `session auth --file F --overwrite` opens the
\* store at resolve_storage_path(account); the run fails before the keypair
\* is written, fails after it, or is approved
AcctAuth ==
    /\ pc = "accounts"
    /\ \E account \in AccountFlags, outcome \in {"failed", "keypair", "approved"},
          signing_key \in PrivateKeys, session_info \in SessionInfos :
        LET root == RootOf(account)
            order == sorted_contracts(CHOOSE o \in Perms(DOMAIN PF_Two) : TRUE)
            kept == persist_keypair(storage[root], signing_key)
            r == [NewRun("auth") EXCEPT
                     !.key = signing_key,
                     !.policy_file = Some(PF_Two),
                     !.order = order,
                     !.policy_vec = policy_vec_of(PF_Two, order),
                     !.guid = FormatHex(poseidon_guid(Unwrap(FeltFromHex(
                                  FormatHex(verifying_key(signing_key)))))),
                     !.effective_rpc_url = "https://api.cartridge.gg/x/starknet/sepolia"]
        IN
        /\ AccountAccepted(account)
        /\ session_info.authorization = <<Addr_a>>
        /\ CASE outcome = "failed" ->
                 /\ signing_key = 1
                 /\ storage' = storage
                 /\ run' = AcctRun("auth", account, Some(root),
                                   Err("Storage", <<"session_signer">>), None)
             [] outcome = "keypair" ->
                 /\ storage' = [storage EXCEPT ![root] = kept]
                 /\ run' = AcctRun("auth", account, Some(root),
                                   Err("InvalidInput", <<"Failed to load policies">>), None)
             [] outcome = "approved" ->
                 /\ storage' = [storage EXCEPT ![root] =
                                    ApprovalWrites(r, kept, session_info, NumApprovalWrites)]
                 /\ run' = AcctRun("auth", account, Some(root), Ok, None)
    /\ UNCHANGED <<now, pc>>

\* status.rs:52: `session status` opens the store at
\* resolve_storage_path(account)
AcctStatus ==
    /\ pc = "accounts"
    /\ \E account \in AccountFlags :
        LET root == RootOf(account) IN
        /\ AccountAccepted(account)
        /\ run' = AcctRun("status", account, Some(root), Ok,
                          Some([session |-> status_session(storage[root], now).session]))
    /\ UNCHANGED <<storage, now, pc>>

\* clear.rs:17: `session clear --yes` opens the store at
\* config.session.storage_path, whatever the label
AcctClear ==
    /\ pc = "accounts"
    /\ \E account \in AccountFlags, clear_ok \in BOOLEAN :
        LET root == OnDisk(BasePath, <<>>) IN
        /\ AccountAccepted(account)
        /\ IF clear_ok
           THEN /\ storage' = [storage EXCEPT ![root] = ClearedStorage(storage[root])]
                /\ run' = AcctRun("clear", account, Some(root), Ok, None)
           ELSE /\ storage' = storage
                /\ run' = AcctRun("clear", account, Some(root),
                                  Err("Storage", <<"clear failed">>), None)
    /\ UNCHANGED <<now, pc>>

NextAccounts ==
    \/ AcctRejected
    \/ AcctAuth
    \/ AcctStatus
    \/ AcctClear

SpecAccounts == InitAccounts /\ [][NextAccounts]_vars

----------------------------------------------------------------------------
(* The clock *)

\* time passes between commands, in steps of one poll hold
Tick ==
    /\ pc = "idle"
    /\ now + PollHoldSeconds <= MaxTime
    /\ now' = now + PollHoldSeconds
    /\ UNCHANGED <<storage, pc, run>>

----------------------------------------------------------------------------

Next ==
    \/ ExecuteBegin
    \/ ExecuteConnect
    \/ ExecuteValidate
    \/ ExecuteSubmit
    \/ AuthBegin
    \/ AuthPrompt
    \/ AuthKeygen
    \/ AuthPolicies
    \/ AuthPoll
    \/ SessionStatus
    \/ SessionClear
    \/ Tick

Spec == Init /\ [][Next]_vars

----------------------------------------------------------------------------
(* The enforcer on its own: validate_calls_against_policies applied to call *)
(* batches and policy sets drawn from the sets below, as its unit tests do  *)

EnforcerPolicies ==
    {PF_Two,
     (Addr_a :> ContractPolicy(<<MethodPolicy("transfer", TRUE)>>))
        @@ (Addr_0a :> ContractPolicy(<<MethodPolicy("mint", TRUE)>>)),
     (Addr_0a :> ContractPolicy(<<MethodPolicy("transfer", TRUE)>>))
        @@ (Addr_G :> ContractPolicy(<<MethodPolicy("transfer", TRUE)>>)),
     (Addr_A :> ContractPolicy(<<MethodPolicy("transfer", TRUE), MethodPolicy("approve", TRUE),
                                 MethodPolicy("mint", TRUE)>>)),
     (Addr_b :> ContractPolicy(<<>>)),
     (Addr_a :> ContractPolicy(<<MethodPolicy("transfer", FALSE), MethodPolicy("swap", TRUE)>>))}

EnforcerCallSpecs ==
    {CallSpec(a, e) : a \in {Addr_a, Addr_A, Addr_d, Addr_g}, e \in {"transfer", "swap"}}

InitEnforcer ==
    /\ storage = EmptyStorage
    /\ now = 0
    /\ pc = "enforce"
    /\ \E calls \in Batches(EnforcerCallSpecs), policies \in EnforcerPolicies :
       \E order \in Perms(DOMAIN policies) :
          run = [NewRun("enforce") EXCEPT !.calls = calls,
                                          !.stored_policies = Some(policies),
                                          !.order = order]

\* execute.rs:340-389 applied to the drawn batch and policies
EnforcerCheck ==
    /\ pc = "enforce"
    /\ run' = Finish(run, validate_calls_against_policies(
                              run.calls, Unwrap(run.stored_policies), run.order))
    /\ pc' = "enforced"
    /\ UNCHANGED <<storage, now>>

NextEnforcer == EnforcerCheck

SpecEnforcer == InitEnforcer /\ [][NextEnforcer]_vars

\* each long-poll query returns (the HTTP client gives up after 130 s,
\* api.rs:80), so a turn of the poll loop that can run does run
FairSpec == Spec /\ WF_vars(AuthPoll)

----------------------------------------------------------------------------
(* Properties *)

InSeq(x, seq) == \E i \in 1..Len(seq) : seq[i] = x

\* the policy snapshot in the store, as `execute` loads it
StoredPolicies == ParsePolicyStorage(Unwrap(storage.session_policies))

\* a call is permitted by a policy set: some contract policy matches its
\* address and lists its entrypoint
Permitted(call, policies) ==
    \E k \in DOMAIN policies :
        /\ AddrMatches(k, call.contract_address)
        /\ \E j \in 1..Len(policies[k].methods) :
              policies[k].methods[j].entrypoint = call.entrypoint

NoPolicyFor(call, policies) ==
    ~\E k \in DOMAIN policies : AddrMatches(k, call.contract_address)

\* the store holds controller metadata and, under its key, a session that is
\* not expired at time t
HasUsableSession(st, t) ==
    /\ IsSome(st.controller)
    /\ LET k == session_key(Unwrap(st.controller).address, Unwrap(st.controller).chain_id) IN
       /\ IsSome(st.sessions[k])
       /\ t < Unwrap(st.sessions[k]).session.expires_at

Finished(kind) == IsSome(run.result) /\ Unwrap(run.result).kind = kind

\* C1: when a policy snapshot is stored and at least one call of the batch,
\* at whatever position, is not permitted by it, `execute` hands nothing of
\* the batch to the signer / submitter.
C1_AllOrNothing ==
    ( /\ run.cmd = "execute"
      /\ IsSome(storage.session_policies)
      /\ \E i \in 1..Len(run.calls) : ~Permitted(run.calls[i], StoredPolicies) )
    => (run.submitted = None /\ pc # "exec_submit")

C1_Witness ==
    /\ run.cmd = "execute" /\ pc = "idle"
    /\ IsSome(storage.session_policies)
    /\ Len(run.calls) = 2
    /\ Permitted(run.calls[1], StoredPolicies)
    /\ ~Permitted(run.calls[2], StoredPolicies)
    /\ InSeq("enforcer_rejected", run.trace)
    /\ run.submitted = None

C3_EmptyBatchNeverSubmitted ==
    ~(run.cmd = "execute" /\ run.submitted = Some(<<>>))

RECURSIVE StripZeros(_)
StripZeros(ds) ==
    IF Len(ds) > 1 /\ ds[1] = "0" THEN StripZeros(Tail(ds)) ELSE ds

CanonDigits(s) == StripZeros(to_lowercase(HexBody(s)))

IsHexString(s) ==
    /\ HexBody(s) # <<>>
    /\ \A i \in 1..Len(HexBody(s)) :
          to_lowercase(HexBody(s))[i] \in
              {"0", "1", "2", "3", "4", "5", "6", "7", "8", "9", "a", "b", "c", "d", "e", "f"}

\* two address strings denote the same contract
SameContract(k, a) ==
    IF IsHexString(k) /\ IsHexString(a)
    THEN CanonDigits(k) = CanonDigits(a)
    ELSE to_lowercase(k) = to_lowercase(a)

\* C6: the enforcer matches a policy key and a call address iff both are hex
\* numbers of equal value (equal up to leading zeros and digit case) or, when
\* one of them is not a hex number, iff the strings are equal ignoring case;
\* the relation is symmetric, and it decides which calls have a policy.
C6_AddressMatching ==
    (run.cmd = "enforce") =>
        LET policies == Unwrap(run.stored_policies) IN
        /\ \A i \in 1..Len(run.calls), k \in DOMAIN policies :
              LET a == run.calls[i].contract_address IN
              /\ AddrMatches(k, a) = SameContract(k, a)
              /\ AddrMatches(k, a) = AddrMatches(a, k)
        /\ (pc = "enforced" /\ Unwrap(run.result).ok) =>
              \A i \in 1..Len(run.calls) :
                  \E k \in DOMAIN policies : SameContract(k, run.calls[i].contract_address)
        /\ (pc = "enforced") =>
              \A i \in 1..Len(run.calls) :
                  (~\E k \in DOMAIN policies : SameContract(k, run.calls[i].contract_address))
                      => ~Unwrap(run.result).ok

C6_Witness ==
    /\ pc = "enforced"
    /\ Unwrap(run.result).ok
    /\ DOMAIN Unwrap(run.stored_policies) = {Addr_0a, Addr_G}
    /\ run.calls = <<CallSpec(Addr_a, "transfer"), CallSpec(Addr_g, "transfer")>>

\* C7: every rejection by the policy enforcer is reported with the error kind
\* PolicyViolation.
C7_RejectionIsPolicyViolation ==
    (run.cmd = "execute" /\ InSeq("enforcer_rejected", run.trace)) =>
        error_code(Unwrap(run.result)) = "PolicyViolation"

C8_Budget ==
    run.cmd = "auth" =>
        /\ run.attempts = Len(run.answers)
        /\ run.attempts <= 3
        /\ (pc = "auth_poll") => run.attempts < 3
        /\ \A k \in 1..Len(run.answers) :
              (k < Len(run.answers)) => run.answers[k] = "none"
        /\ Finished("CallbackTimeout") =>
              run.answers = <<"none", "none", "none">>
        /\ (run.answers = <<"none", "none", "none">>) =>
              (pc = "idle" /\ Finished("CallbackTimeout"))
        /\ \A k \in 1..Len(run.answers) :
              (run.answers[k] = "approved") =>
                  /\ k <= 3 /\ run.attempts = k /\ pc = "idle"
                  /\ IsSome(run.result)
                  /\ Unwrap(run.result).kind \in {"Ok", "Storage", "InvalidSessionData", "NoSession"}
                  /\ InSeq("stored", run.trace) <=> Unwrap(run.result).ok

C9_TimeoutCarriesElapsed ==
    (run.cmd = "auth" /\ Finished("CallbackTimeout")) =>
        Unwrap(run.result).secs = run.elapsed

\* C9, amended: the timeout error carries the nominal budget, 3 attempts of
\* 120 seconds = 360 seconds, whatever time actually elapsed during polling.
C9_TimeoutCarriesBudget ==
    (run.cmd = "auth" /\ Finished("CallbackTimeout")) =>
        Unwrap(run.result).secs = 3 * 120

C9_Witness ==
    /\ run.cmd = "auth" /\ Finished("CallbackTimeout")
    /\ run.elapsed = 120
    /\ Unwrap(run.result).secs = 360

\* C10: the Session and ControllerMetadata records change only in a run of
\* `session auth` whose last poll returned an approval; a run that ends by
\* timeout, poll error, invalid input or a declined confirmation leaves both
\* as they were when it started.
C10_RecordsOnlyOnApproval ==
    LET changed == \/ storage.sessions # run.storage0.sessions
                   \/ storage.controller # run.storage0.controller
    IN
    /\ (run.cmd \in {"auth", "execute"} /\ changed) =>
          /\ run.cmd = "auth"
          /\ run.answers # <<>>
          /\ run.answers[Len(run.answers)] = "approved"
    /\ ( /\ run.cmd = "auth"
         /\ \/ Finished("CallbackTimeout") \/ Finished("ApiError") \/ Finished("InvalidInput")
            \/ InSeq("aborted", run.trace) )
       => ~changed

C10_Witness ==
    /\ run.cmd = "auth" /\ Finished("CallbackTimeout")
    /\ IsSome(run.storage0.controller)
    /\ storage.session_signer # run.storage0.session_signer
    /\ storage.sessions = run.storage0.sessions
    /\ storage.controller = run.storage0.controller

\* the sessionKeyGuid of a private key: the hash of its public key, as hex
GuidOfKey(k) == FormatHex(poseidon_guid(Unwrap(FeltFromHex(FormatHex(verifying_key(k))))))

\* C11 as stated: a run of `session auth` that ends in a polling timeout
\* leaves the whole storage, the keypair included, as it was before the run.
C11_TimeoutPersistsNothing ==
    (run.cmd = "auth" /\ Finished("CallbackTimeout")) => storage = run.storage0

\* C11, amended: a run of `session auth` that ends in a polling timeout
\* persists nothing but the keypair it generated: every other stored item is
\* as before the run, the stored keypair is the one of this run, and the
\* guid the run polled with is the guid of that keypair.
C11_TimeoutReplacesOnlyKeypair ==
    (run.cmd = "auth" /\ Finished("CallbackTimeout")) =>
        /\ storage = [run.storage0 EXCEPT !.session_signer = Some(run.key)]
        /\ run.guid = GuidOfKey(Unwrap(storage.session_signer))

C11_Witness ==
    /\ run.cmd = "auth" /\ Finished("CallbackTimeout")
    /\ IsSome(run.storage0.session_signer)
    /\ IsSome(run.storage0.session_key_guid)
    /\ storage.session_signer # run.storage0.session_signer
    /\ Unwrap(run.storage0.session_key_guid) # run.guid

\* C12: between commands, whenever a Session record is stored, its
\* sessionKeyGuid is the hash of the public key of the keypair now stored
\* under session_signer, and a stored session_key_guid scalar agrees with it.
C12_SessionMatchesKeypair ==
    \A k \in SessionKeys :
        (pc = "idle" /\ IsSome(storage.sessions[k])) =>
            /\ IsSome(storage.session_signer)
            /\ Unwrap(storage.sessions[k]).session.session_key_guid
                  = poseidon_guid(verifying_key(Unwrap(storage.session_signer)))
            /\ IsSome(storage.session_key_guid) =>
                  Unwrap(storage.session_key_guid)
                      = GuidOfKey(Unwrap(storage.session_signer))

\* what `session status` prints for a store at time t: output and messages
StatusOf(st, t) ==
    LET s == status_session(st, t) IN <<Some([session |-> s.session]), status_messages(s)>>

\* the store holds a keypair and neither Session nor ControllerMetadata
KeypairOnly(st) ==
    /\ IsSome(st.session_signer)
    /\ ~IsSome(st.controller)
    /\ \A k \in SessionKeys : ~IsSome(st.sessions[k])

\* C13: for a store that holds a keypair but neither Session nor
\* ControllerMetadata, `session status` reports something else than for the
\* empty store and something else than a session.
C13_KeypairOnlyDistinct ==
    (run.cmd = "status" /\ KeypairOnly(storage)) =>
        /\ <<run.output, run.trace>> # StatusOf(EmptyStorage, run.started)
        /\ Unwrap(run.output).session = None

\* the answers that say y or yes
AnsweredYes(input) == input \in {<<"y", "\n">>, <<"Y", "E", "S", "\n">>}

\* some Session record of the store is not expired at time t
AnyUnexpiredSession(st, t) ==
    \E k \in SessionKeys :
        IsSome(st.sessions[k]) /\ t < Unwrap(st.sessions[k]).session.expires_at

\* the overwrite gate of `session auth`, for a given reading of "an unexpired
\* Session is stored": before the keypair is generated nothing is written and
\* no service contacted; with such a session and without --overwrite the run
\* gets past the gate only on the answer y or yes, and a declined run ends
\* with storage untouched; otherwise there is no prompt.
OverwriteGate(guarded) ==
    run.cmd = "auth" =>
        /\ pc \in {"auth_prompt", "auth_keygen"} =>
              storage = run.storage0 /\ ~run.contacted
        /\ pc = "auth_prompt" => guarded /\ ~run.overwrite /\ run.input = None
        /\ pc = "auth_keygen" =>
              IF guarded /\ ~run.overwrite
              THEN IsSome(run.input) /\ AnsweredYes(Unwrap(run.input))
              ELSE run.input = None
        /\ InSeq("aborted", run.trace) =>
              /\ pc = "idle" /\ storage = run.storage0 /\ ~run.contacted
              /\ guarded /\ ~run.overwrite
              /\ IsSome(run.input) /\ ~AnsweredYes(Unwrap(run.input))

\* C14 as stated: the gate guards every unexpired Session record.
C14_GateGuardsAnySession ==
    OverwriteGate(AnyUnexpiredSession(run.storage0, run.started))

\* C14, amended: the gate guards an unexpired Session that is stored under
\* the key derived from the stored ControllerMetadata; a Session record
\* without ControllerMetadata counts as absent.
C14_GateGuardsUsableSession ==
    OverwriteGate(HasUsableSession(run.storage0, run.started))

C14_Witness ==
    /\ run.cmd = "auth" /\ pc = "idle" /\ InSeq("aborted", run.trace)
    /\ HasUsableSession(storage, run.started)
    /\ run.input = Some(<<"\n">>)
    /\ storage = run.storage0

\* C15: a run of `session auth` in which the user declined the overwrite
\* confirmation ends as a failure: error kind Aborted, exit code 1.
C15_DeclineIsAbortedError ==
    (run.cmd = "auth" /\ pc = "idle" /\ InSeq("aborted", run.trace)) =>
        /\ ~Unwrap(run.result).ok
        /\ error_code(Unwrap(run.result)) = "Aborted"
        /\ exit_code(Unwrap(run.result)) = 1

\* the roots of distinct accepted accounts are pairwise different
\* directories
RootsPairwiseDistinct ==
    \A a, b \in {x \in AccountFlags : AccountAccepted(x)} :
        a # b => RootOf(a) # RootOf(b)

\* exactly the names that are empty, too long or hold a character outside
\* the class are rejected, and a rejected run resolved no path
InvalidNamesRejected ==
    /\ \A a \in AccountFlags :
          AccountAccepted(a) <=>
              \/ a = None
              \/ /\ Unwrap(a) # <<>>
                 /\ Len(Unwrap(a)) <= 64
                 /\ \A i \in 1..Len(Unwrap(a)) : Unwrap(a)[i] \notin {"/", ".", " "}
    /\ run.cmd = "rejected" <=> ~AccountAccepted(run.account)
    /\ run.cmd = "rejected" => run.root = None /\ Finished("InvalidInput")

\* C16: storage namespaces never overlap: the roots of the default account
\* and of distinct valid labels are pairwise different, a command run for an
\* account opens the store of that account and no other, and invalid names
\* are rejected before a path is resolved
C16_NamespacesNeverOverlap ==
    /\ RootsPairwiseDistinct
    /\ InvalidNamesRejected
    /\ IsSome(run.root) => Unwrap(run.root) = RootOf(run.account)

\* C17: `session clear` for label L destroys the session data of L, leaves
\* the store of every other account unchanged, and `session status` for L
\* reports no session afterwards
C17_ClearScopedPerLabel ==
    [][(AcctClear /\ Unwrap(run'.result).ok) =>
          /\ status_session(storage'[RootOf(run'.account)], now').session = None
          /\ \A d \in AccountRoots \ {RootOf(run'.account)} : storage'[d] = storage[d]]_vars


\* a finished `session clear`, the answer it read (if it asked) and whether
\* it removed the stored data
ClearRan == pc = "idle" /\ run.cmd = "clear" /\ IsSome(run.result)

ClearAnsweredYes == run.answers # <<>> /\ AnsweredYes(run.answers[1])

ClearDeclined == run.answers # <<>> /\ ~AnsweredYes(run.answers[1])

ClearDeleted == storage # run.storage0 \/ (run.trace # <<>> /\ run.trace[Len(run.trace)] = "cleared")

\* C18: `session clear` never deletes stored session data without an
\* interactive confirmation answered y/yes unless the confirmation was
\* bypassed with --yes; a declined confirmation leaves storage unchanged
C18_ClearNeedsYesOrConfirmation ==
    ClearRan =>
        /\ ClearDeleted => (run.skip_confirm \/ ClearAnsweredYes)
        /\ ClearDeclined => storage = run.storage0

\* C18 (amended): `session clear` never deletes stored session data without
\* an interactive confirmation answered y/yes unless the confirmation was
\* bypassed with --yes or the output mode is JSON; a declined confirmation
\* leaves storage unchanged
C18_ClearNeedsYesJsonOrConfirmation ==
    ClearRan =>
        /\ ClearDeleted => (run.skip_confirm \/ run.json_output \/ ClearAnsweredYes)
        /\ ClearDeclined => storage = run.storage0 /\ ~ClearDeleted

C18_Witness ==
    /\ ClearRan /\ ~run.skip_confirm /\ ~run.json_output
    /\ ClearAnsweredYes
    /\ IsSome(run.storage0.session_signer) /\ IsSome(run.storage0.controller)
    /\ storage = EmptyStorage


\* the expiry time of the session stored under the controller's key
StoredExpiresAt(st) ==
    Unwrap(st.sessions[session_key(Unwrap(st.controller).address,
                                   Unwrap(st.controller).chain_id)]).session.expires_at

CanonIdempotent ==
    (pc = "compared" /\ run.how = "again") =>
        run.canonical2 = run.canonical /\ run.policy_vec2 = run.policy_vec

\* C20: canonicalization of a policy set is idempotent, and the canonical
\* sequence is identical for any two inputs that contain the same contracts
\* and methods in different orders, also after encoding and decoding
C20_CanonicalOrderIndependent ==
    pc = "compared" =>
        run.canonical2 = run.canonical /\ run.policy_vec2 = run.policy_vec


\* the call policies a JSON contracts object lists, in its order
RECURSIVE FlattenContracts(_)
FlattenContracts(json) ==
    IF json = <<>> THEN <<>>
    ELSE [i \in 1..Len(json[1][2].methods) |->
             [contract_address |-> Unwrap(FeltFromHex(json[1][1])),
              selector |-> get_selector_from_name(json[1][2].methods[i].entrypoint),
              authorized |-> json[1][2].methods[i].authorized]]
            \o FlattenContracts(Tail(json))

C22_ExactlyOneSource ==
    (run.cmd = "auth" /\ run.source \in {"none", "both"}) =>
        /\ pc = "idle"
        /\ Finished("InvalidInput") \/ Finished("ArgumentConflict")
        /\ run.key = 0
        /\ storage = run.storage0
        /\ ~run.contacted

C22_Witness ==
    /\ run.cmd = "auth" /\ run.source = "both" /\ Finished("ArgumentConflict")
    /\ IsSome(storage.session_signer)


\* the rendering of a private scalar in a message (every value is text)
SecretForms(private_key) == {FormatHex(private_key)}

\* C23: no message that `session auth` sends to an external party contains
\* the private scalar; what leaves the process of the key is the public key
\* and the guid derived from it, and the private key is written only to
\* local storage (the keypair key and the credentials of the Session)
C23_PrivateKeyStaysLocal ==
    (run.cmd = "auth" /\ run.key # 0) =>
        /\ \A m \in run.sent : \A f \in m.fields :
              /\ f[2] \notin SecretForms(run.key)
              /\ f[1] = "public_key" => f[2] = FormatHex(verifying_key(run.key))
              /\ f[1] = "sessionKeyGuid" => f[2] = GuidOfKey(run.key)
              /\ f[1] \in {"public_key", "sessionKeyGuid", "policies", "rpc_url",
                            "redirect_uri", "mode", "preset_name", "method"}
        /\ (pc # "idle" \/ Finished("Ok")) => storage.session_signer = Some(run.key)
        /\ (pc = "idle" /\ Finished("Ok")) =>
              \E k \in SessionKeys :
                  /\ IsSome(storage.sessions[k])
                  /\ Unwrap(storage.sessions[k]).credentials.private_key = run.key

C23_Witness ==
    /\ run.cmd = "auth" /\ pc = "idle" /\ Finished("Ok")
    /\ \E m \in run.sent : m.to = "keychain"
    /\ \E m \in run.sent : m.to = "shortener"
    /\ \E m \in run.sent : m.to = "api"
    /\ \E m \in run.sent : m.to = "presets"
    /\ \E m \in run.sent : m.to = "rpc"


\* the value of a field of a message
FieldOf(m, name) == (CHOOSE f \in m.fields : f[1] = name)[2]

\* C24: within one `session auth` run the guid is computed once, from the
\* public key placed in the authorization URL; every poll attempt of the run
\* queries with this value, and the session_key_guid stored on approval is
\* this value
C24_OneGuidPerRun ==
    (run.cmd = "auth" /\ run.guid # <<>>) =>
        /\ \A m \in run.sent : m.to = "keychain" =>
              run.guid = FormatHex(poseidon_guid(Unwrap(FeltFromHex(FieldOf(m, "public_key")))))
        /\ \A m \in run.sent : m.to = "api" => FieldOf(m, "sessionKeyGuid") = run.guid
        /\ Cardinality({m \in run.sent : m.to = "api"}) = IF run.attempts > 0 THEN 1 ELSE 0
        /\ (pc = "idle" /\ Finished("Ok")) => storage.session_key_guid = Some(run.guid)
        /\ storage.session_key_guid \in {run.storage0.session_key_guid, Some(run.guid)}

C24_Witness ==
    /\ run.cmd = "auth" /\ pc = "idle" /\ Finished("Ok")
    /\ run.attempts = max_attempts
    /\ IsSome(run.storage0.session_key_guid)
    /\ storage.session_key_guid # run.storage0.session_key_guid


\* a run of `session auth` that has shown its URL and is about to poll
AboutToPoll == run.cmd = "auth" /\ pc = "auth_poll" /\ run.attempts = 0

\* the answers of the poll attempts: all but the last said "not yet", and an
\* error answer ended the run with that error
OnlyNotYetRetried ==
    run.cmd = "auth" =>
        /\ run.attempts = Len(run.answers)
        /\ \A i \in 1..Len(run.answers) - 1 : run.answers[i] = "none"
        /\ \A i \in 1..Len(run.answers) :
              run.answers[i] = "error" => pc = "idle" /\ Finished("ApiError")
        /\ Finished("CallbackTimeout") =>
              \A i \in 1..Len(run.answers) : run.answers[i] = "none"

\* a failed shortening is swallowed: the flow goes on with the full URL
ShortenFailureSwallowed ==
    (AboutToPoll /\ run.short_url = None) => run.display_url = "full"

PollDeadline == max_attempts * PollHoldSeconds

\* every request that was started has returned its answer: the flow stops
\* only between attempts
StopsBetweenAttempts ==
    run.cmd = "auth" => run.attempts = Len(run.answers)

\* C26: before each poll attempt the flow checks the elapsed wall-clock time
\* against a deadline and stops with the timeout when the deadline has
\* passed; it stops only between attempts
C26_StopsOnElapsedDeadline ==
    /\ StopsBetweenAttempts
    /\ (run.cmd = "auth" /\ pc = "auth_poll") => run.elapsed < PollDeadline
    /\ (run.cmd = "auth" /\ Finished("CallbackTimeout")) => run.elapsed >= PollDeadline

\* C26 (amended): after each "not yet" answer the flow checks the number of
\* attempts made against the budget and stops with the timeout when the
\* budget is used up, whatever time has elapsed; it stops only between
\* attempts
C26_StopsOnAttemptBudget ==
    /\ StopsBetweenAttempts
    /\ (run.cmd = "auth" /\ pc = "auth_poll") => run.attempts < max_attempts
    /\ (run.cmd = "auth" /\ Finished("CallbackTimeout")) =>
          /\ run.attempts = max_attempts
          /\ run.answers[max_attempts] = "none"
          /\ run.elapsed \in 0..PollDeadline

\* the timeout of a run whose three polls were answered at once
C26_Witness ==
    /\ run.cmd = "auth" /\ Finished("CallbackTimeout")
    /\ run.attempts = max_attempts
    /\ run.elapsed = 0

----------------------------------------------------------------------------
(* Execution without a usable policy snapshot *)

\* a text whose member lacks its contract policy, and one whose contract
\* policy lacks `methods`
TextMemberWithoutPolicy == << <<Addr_a>> >>
TextPolicyWithoutMethods == << <<Addr_a, [name |-> <<"g">>]>> >>

UnusableReadsGiveNone ==
    /\ load_stored_policies(ReadFailed) = None
    /\ load_stored_policies(ReadAbsent) = None
    /\ load_stored_policies(ReadOther) = None
    /\ load_stored_policies(ReadString(TextMemberWithoutPolicy)) = None
    /\ load_stored_policies(ReadString(TextPolicyWithoutMethods)) = None

NoSnapshotNoEnforcer ==
    (run.cmd = "execute" /\ run.trace # <<>> /\ storage.session_policies = None) =>
        /\ run.stored_policies = None
        /\ ~InSeq("enforcer_accepted", run.trace)
        /\ ~InSeq("enforcer_rejected", run.trace)

NoSnapshotStepsToSubmit ==
    /\ (pc = "exec_validate" /\ run.stored_policies = None /\ CallsConvertible(run'.calls))
          => (pc' = "exec_submit" /\ run'.trace = <<"session_valid">>)
    /\ (pc = "exec_submit" /\ run.stored_policies = None)
          => (run'.submitted = Some(run.calls) /\ run'.trace = <<"session_valid", "submitted">>)

\* C27: a read of the policy snapshot that fails, finds nothing, finds a
\* value that is no string or a text that does not parse yields no policy
\* set; a run of `execute` without a policy set runs no enforcer step and
\* hands every convertible batch, whatever its calls, to the submitter.
C27_AbsentSnapshotAllowsAll ==
    /\ [](UnusableReadsGiveNone /\ NoSnapshotNoEnforcer)
    /\ [][NoSnapshotStepsToSubmit]_vars

C27_Witness ==
    /\ run.cmd = "execute" /\ storage.session_policies = None
    /\ run.stored_policies = None
    /\ run.calls # <<>>
    /\ run.submitted = Some(run.calls)
    /\ run.trace = <<"session_valid", "submitted">>

----------------------------------------------------------------------------
(* The enforcer and the `authorized` flag *)

\* the policy set with the flag of every method set to `flag`
WithAuthorized(policies, flag) ==
    [k \in DOMAIN policies |->
        ContractPolicy([i \in 1..Len(policies[k].methods) |->
            MethodPolicy(policies[k].methods[i].entrypoint, flag)])]

\* the method of the matching contract policy that lists the call's entrypoint
ListedMethods(call, policies, order) ==
    LET m == matching_contract(call, order) IN
    IF ~IsSome(m) THEN {}
    ELSE {i \in 1..Len(policies[Unwrap(m)].methods) :
              policies[Unwrap(m)].methods[i].entrypoint = call.entrypoint}

\* C28: the enforcer's verdict on a batch is the one it gives when every
\* flag is true and the one it gives when every flag is false, and a call
\* whose matching contract policy lists its entrypoint is accepted whatever
\* the flag of that method.
C28_AuthorizedFlagIgnored ==
    (pc = "enforced") =>
        LET policies == Unwrap(run.stored_policies) IN
        /\ run.result = Some(validate_calls_against_policies(
                                run.calls, WithAuthorized(policies, TRUE), run.order))
        /\ run.result = Some(validate_calls_against_policies(
                                run.calls, WithAuthorized(policies, FALSE), run.order))
        /\ \A i \in 1..Len(run.calls) :
              ListedMethods(run.calls[i], policies, run.order) # {} =>
                  validate_call(run.calls[i], policies, run.order).ok

C28_Witness ==
    /\ pc = "enforced" /\ run.calls # <<>>
    /\ Unwrap(run.result).ok
    /\ \E i \in 1..Len(run.calls) :
          LET policies == Unwrap(run.stored_policies)
              m == Unwrap(matching_contract(run.calls[i], run.order))
          IN  /\ ListedMethods(run.calls[i], policies, run.order) # {}
              /\ \A j \in ListedMethods(run.calls[i], policies, run.order) :
                    ~policies[m].methods[j].authorized

----------------------------------------------------------------------------
(* What a failed `session auth` leaves behind *)

\* the run wrote its keypair (lines 169-180) and then ended in one of the
\* failures of lines 183-369 and 432-495
FailedAfterKeypair ==
    /\ run.cmd = "auth" /\ pc = "idle"
    /\ run.key \in PrivateKeys
    /\ \/ Finished("InvalidInput") \/ Finished("ApiError") \/ Finished("CallbackTimeout")

\* C29: a run of `session auth` that fails after its keypair write, by
\* invalid input (policy source, address, entrypoint, preset, RPC, endpoint),
\* by a poll error or by the timeout, leaves the Session records, the
\* ControllerMetadata, the policy snapshot, session_chain_id, session_rpc_url
\* and session_key_guid as they were; the keypair key holds the new keypair.
C29_FailureKeepsAllButKeypair ==
    FailedAfterKeypair =>
        /\ storage.sessions = run.storage0.sessions
        /\ storage.controller = run.storage0.controller
        /\ storage.session_policies = run.storage0.session_policies
        /\ storage.session_chain_id = run.storage0.session_chain_id
        /\ storage.session_rpc_url = run.storage0.session_rpc_url
        /\ storage.session_key_guid = run.storage0.session_key_guid
        /\ storage.session_signer = Some(run.key)

C29_Witness ==
    /\ FailedAfterKeypair /\ Finished("InvalidInput")
    /\ HasUsableSession(run.storage0, run.started)
    /\ IsSome(run.storage0.session_policies)
    /\ IsSome(run.storage0.session_key_guid)
    /\ storage.session_signer # run.storage0.session_signer
    /\ storage.sessions = run.storage0.sessions

----------------------------------------------------------------------------
(* `session status` against `execute` on a partly written approval *)

\* ControllerMetadata, the Session under the key derived from it, and the
\* session_key_guid scalar are all stored
StatusTriplePresent(st) ==
    /\ IsSome(st.controller)
    /\ IsSome(st.sessions[session_key(Unwrap(st.controller).address,
                                      Unwrap(st.controller).chain_id)])
    /\ IsSome(st.session_key_guid)

\* the run stored a part of an approval: its last poll was approved and a
\* write failed
ApprovalCutShort ==
    /\ run.cmd = "auth" /\ pc = "idle" /\ Finished("Storage")
    /\ run.answers # <<>> /\ run.answers[Len(run.answers)] = "approved"

SessionRefusals == {"NoSession", "InvalidSessionData", "SessionExpired"}

\* C30: `session status` reports a session exactly when ControllerMetadata,
\* the Session under its key and session_key_guid are all stored; an
\* approval whose writes were cut short has not written session_key_guid,
\* and has written Session and ControllerMetadata if it wrote any of the
\* later scalars; `execute` never refuses a stored unexpired session, with
\* or without session_key_guid.
C30_StatusNeedsGuidExecuteDoesNot ==
    /\ (run.cmd = "status") =>
          (IsSome(Unwrap(run.output).session) <=> StatusTriplePresent(run.storage0))
    /\ ApprovalCutShort =>
          /\ storage.session_key_guid = run.storage0.session_key_guid
          /\ ( \/ storage.session_chain_id # run.storage0.session_chain_id
               \/ storage.session_rpc_url # run.storage0.session_rpc_url
               \/ storage.session_policies # run.storage0.session_policies )
              => /\ IsSome(storage.controller)
                 /\ IsSome(storage.sessions[session_key(Unwrap(storage.controller).address,
                                                        Unwrap(storage.controller).chain_id)])
    /\ (run.cmd = "execute" /\ pc = "idle" /\ HasUsableSession(storage, run.started)) =>
          ~(Unwrap(run.result).kind \in SessionRefusals)

C30_Witness ==
    /\ run.cmd = "execute" /\ pc = "idle"
    /\ storage.session_key_guid = None
    /\ status_session(storage, run.started).session = None
    /\ status_session(storage, run.started).outdated
    /\ run.trace # <<>> /\ run.trace[1] = "session_valid"
    /\ IsSome(run.submitted)

====
